---------------------------- MODULE Spec2Model ----------------------------
(***************************************************************************)
(* Duplicate-ticket detection engine (src/duplicate_detector.py).          *)
(*                                                                         *)
(* Time is counted in ticks of MinutesPerTick minutes, so every timedelta  *)
(* the code builds (whole hours, and the 15/30/60 minute windows) is a     *)
(* whole number of ticks.  A description is a sequence of one-character    *)
(* strings; an absent description (NaN) and an absent timestamp (NaT) are  *)
(* the values NaN and NaT below.                                           *)
(***************************************************************************)
EXTENDS Integers, Sequences, FiniteSets, TLC

VARIABLES
    HAS_FUZZYWUZZY,       \* module flag set by the import at lines 6-11
    data,                 \* the DataFrame handed to the detector: a sequence of rows
    sort_outcome,         \* the order sort_values('Created_dt') gives each site's rows
    max_hours,            \* the caller's time window, in hours
    similarity_threshold, \* the caller's similarity threshold
    op,                   \* the operation the detector ran ("none": just constructed)
    events,               \* what the run did, in order: callbacks and site scans
    results,              \* self.results
    ret,                  \* what the operation returned
    enable,               \* the detectors the caller of analyze_enhanced enabled
    files,                \* the files CSVRepairer reads and writes
    parser,               \* the CSVParser: its fields
    app                   \* the DuplicateTicketApp: its fields, threads and queue

\* the objects around the detector
others == <<files, parser, app>>

vars == <<HAS_FUZZYWUZZY, data, sort_outcome, max_hours, similarity_threshold,
          op, events, results, ret, enable, others>>

\* none of them has been constructed
OthersIdle == files = <<>> /\ parser = <<>> /\ app = <<>>

-----------------------------------------------------------------------------
(* Bounds of the model and constants of the program *)

MaxRecords == 3
MaxNumber == 2
MinutesPerTick == 15
TicksPerHour == 60 \div MinutesPerTick

NaT == -1
NaN == <<"NaN">>

\* pd.isna on a description, and on a timestamp
isna(x) == x = NaN

\* mutant: a missing timestamp is never noticed
isnat_never(x) == FALSE

isnat(x) == x = NaT

-----------------------------------------------------------------------------
(* Generic helpers *)

Range(s) == {s[k] : k \in DOMAIN s}

RECURSIVE SumSeq(_)
SumSeq(s) == IF s = <<>> THEN 0 ELSE Head(s) + SumSeq(Tail(s))

\* F(v), with v computed once: a local variable of the code
Bind(v, F(_)) == CHOOSE r \in {F(x) : x \in {v}} : TRUE

-----------------------------------------------------------------------------
(* str.lower() and str.strip() on descriptions *)

lower_char(c) == IF c = "A" THEN "a" ELSE IF c = "B" THEN "b" ELSE c

lower(s) == [k \in DOMAIN s |-> lower_char(s[k])]

RECURSIVE lstrip(_)
lstrip(s) == IF s # <<>> /\ Head(s) = " " THEN lstrip(Tail(s)) ELSE s

RECURSIVE rstrip(_)
rstrip(s) ==
    IF s # <<>> /\ s[Len(s)] = " " THEN rstrip(SubSeq(s, 1, Len(s) - 1)) ELSE s

strip(s) == rstrip(lstrip(s))

\* str(desc): the text of a description
str(d) == d

-----------------------------------------------------------------------------
(* difflib.SequenceMatcher(None, a, b), no junk (autojunk needs 200 items). *)
(* Indices are 0-based and ranges half-open, as in the library.            *)

\* length of the common run that ends at a[i], b[j] inside the window
RECURSIVE RunLen(_, _, _, _, _, _)
RunLen(a, b, alo, blo, i, j) ==
    IF i < alo \/ j < blo THEN 0
    ELSE IF a[i + 1] # b[j + 1] THEN 0
    ELSE 1 + RunLen(a, b, alo, blo, i - 1, j - 1)

\* the ends <<i, j, k>> of the common runs of the window, k their length
run_ends(a, b, alo, ahi, blo, bhi) ==
    {<<p[1], p[2], RunLen(a, b, alo, blo, p[1], p[2])>> :
        p \in {q \in (alo .. ahi - 1) \X (blo .. bhi - 1) :
                 a[q[1] + 1] = b[q[2] + 1]}}

\* the longest block; of those the one starting earliest in a, then in b
find_longest_match(a, b, alo, ahi, blo, bhi) ==
    Bind(run_ends(a, b, alo, ahi, blo, bhi), LAMBDA ends :
        IF ends = {} THEN [i |-> alo, j |-> blo, size |-> 0]
        ELSE Bind(CHOOSE p \in ends : \A q \in ends :
                      \/ q[3] < p[3]
                      \/ q[3] = p[3] /\ p[1] < q[1]
                      \/ q[3] = p[3] /\ p[1] = q[1] /\ p[2] <= q[2],
                  LAMBDA best :
                      [i |-> best[1] - best[3] + 1,
                       j |-> best[2] - best[3] + 1,
                       size |-> best[3]]))

\* the matching blocks in increasing order, without the closing sentinel
RECURSIVE matching_blocks(_, _, _, _, _, _)
matching_blocks(a, b, alo, ahi, blo, bhi) ==
    IF alo >= ahi \/ blo >= bhi THEN <<>>
    ELSE Bind(find_longest_match(a, b, alo, ahi, blo, bhi), LAMBDA m :
             IF m.size = 0 THEN <<>>
             ELSE matching_blocks(a, b, alo, m.i, blo, m.j)
                  \o <<m>>
                  \o matching_blocks(a, b, m.i + m.size, ahi,
                                     m.j + m.size, bhi))

get_matching_blocks(a, b) ==
    matching_blocks(a, b, 0, Len(a), 0, Len(b))
    \o <<[i |-> Len(a), j |-> Len(b), size |-> 0]>>

\* ratio() as the fraction num/den = 2*M/T (1.0 when both are empty)
sm_ratio(a, b) ==
    IF Len(a) + Len(b) = 0 THEN [num |-> 1, den |-> 1]
    ELSE Bind(get_matching_blocks(a, b), LAMBDA blocks :
             [num |-> 2 * SumSeq([k \in DOMAIN blocks |-> blocks[k].size]),
              den |-> Len(a) + Len(b)])

\* int(x * 100) for x = num/den >= 0
int_times_100(x) == (100 * x.num) \div x.den

\* utils.intr(100 * x) = int(round(100 * x)), round half to even
intr_times_100(x) ==
    Bind(<<(100 * x.num) \div x.den, (100 * x.num) % x.den, x.den>>,
         LAMBDA qr :
            IF 2 * qr[2] < qr[3] THEN qr[1]
            ELSE IF 2 * qr[2] > qr[3] THEN qr[1] + 1
            ELSE IF qr[1] % 2 = 0 THEN qr[1] ELSE qr[1] + 1)

-----------------------------------------------------------------------------
(* fuzzywuzzy.fuzz (pure-python SequenceMatcher backend) *)

fuzz_ratio(s1, s2) ==
    IF s1 = s2 THEN 100                           \* check_for_equivalence
    ELSE IF Len(s1) = 0 \/ Len(s2) = 0 THEN 0     \* check_empty_string
    ELSE intr_times_100(sm_ratio(s1, s2))

\* longer[long_start:long_end] for a block of (shorter, longer)
partial_substr(shorter, longer, block) ==
    Bind(IF block.j - block.i > 0 THEN block.j - block.i ELSE 0,
         LAMBDA long_start :
            SubSeq(longer, long_start + 1,
                   IF long_start + Len(shorter) > Len(longer)
                   THEN Len(longer) ELSE long_start + Len(shorter)))

\* the ratios of shorter against the substring of each block
partial_scores(shorter, longer) ==
    Bind(get_matching_blocks(shorter, longer), LAMBDA blocks :
        {Bind(partial_substr(shorter, longer, blocks[k]),
              LAMBDA long_substr : sm_ratio(shorter, long_substr)) :
            k \in DOMAIN blocks})

fuzz_partial_ratio(s1, s2) ==
    IF s1 = s2 THEN 100
    ELSE IF Len(s1) = 0 \/ Len(s2) = 0 THEN 0
    ELSE Bind(IF Len(s1) <= Len(s2) THEN partial_scores(s1, s2)
              ELSE partial_scores(s2, s1),
              LAMBDA scores :
                 IF \E r \in scores : 1000 * r.num > 995 * r.den THEN 100
                 ELSE Bind(CHOOSE r \in scores : \A o \in scores :
                               o.num * r.den <= r.num * o.den,
                           LAMBDA best : intr_times_100(best)))

-----------------------------------------------------------------------------
(* DuplicateDetector._calculate_similarity *)

\* lines 546-552
similarity_fuzzywuzzy(desc1, desc2) ==
    Bind(<<fuzz_ratio(desc1, desc2), fuzz_partial_ratio(desc1, desc2)>>,
         LAMBDA scores :
            IF scores[1] >= scores[2] THEN scores[1] ELSE scores[2])

\* lines 555-562
similarity_difflib(desc1_clean, desc2_clean) ==
    IF desc1_clean = <<>> \/ desc2_clean = <<>> THEN 0
    ELSE Bind(sm_ratio(desc1_clean, desc2_clean), LAMBDA similarity :
             int_times_100(similarity))

calculate_similarity_backend(fuzzy, desc1, desc2) ==
    IF isna(desc1) \/ isna(desc2) THEN 0
    ELSE IF fuzzy
    THEN Bind(<<lower(str(desc1)), lower(str(desc2))>>, LAMBDA d :
             similarity_fuzzywuzzy(d[1], d[2]))
    ELSE Bind(<<strip(lower(str(desc1))), strip(lower(str(desc2)))>>,
              LAMBDA d : similarity_difflib(d[1], d[2]))

\* the descriptions of the model's tickets
ab == <<"a", "b">>
ba == <<"b", "a">>
Descriptions == {ab, ba}

\* the scores of the model's descriptions, computed once
similarity_table ==
    [fuzzy \in BOOLEAN |->
        [p \in (Descriptions \cup {NaN}) \X (Descriptions \cup {NaN}) |->
            calculate_similarity_backend(fuzzy, p[1], p[2])]]

calculate_similarity(fuzzy, desc1, desc2) ==
    IF <<desc1, desc2>> \in DOMAIN similarity_table[fuzzy]
    THEN similarity_table[fuzzy][<<desc1, desc2>>]
    ELSE calculate_similarity_backend(fuzzy, desc1, desc2)

-----------------------------------------------------------------------------
(* DataFrame operations.  A row is a record                                *)
(*   [index, Site, Number, Short_description, Created_dt];                 *)
(* index is the row's label in the caller's frame, which filtering keeps.  *)

\* site names in ascending order, as groupby sorts its keys
SiteOrder == <<"A", "B">>

\* data.groupby('Site'): the keys present, sorted
groupby_keys(fr) ==
    LET present(s) == \E k \in DOMAIN fr : fr[k].Site = s
    IN  SelectSeq(SiteOrder, present)

\* the rows of one group, in the frame's order
group_rows(fr, site_name) ==
    LET member(r) == r.Site = site_name
    IN  SelectSeq(fr, member)

\* The orders sort_values('Created_dt') may give a group: ascending by
\* Created_dt, NaT rows last in frame order; rows with equal timestamps in
\* any order (the default sort kind is quicksort, which is not stable).
sorted_orders(g) ==
    LET valid == {k \in DOMAIN g : ~isnat(g[k].Created_dt)}
        nat(r) == isnat(r.Created_dt)
        tail == SelectSeq(g, nat)
        perms == {p \in [1 .. Cardinality(valid) -> valid] :
                    /\ \A x, y \in DOMAIN p : x < y => p[x] # p[y]
                    /\ \A x, y \in DOMAIN p :
                         x < y => g[p[x]].Created_dt <= g[p[y]].Created_dt}
    IN  {[k \in DOMAIN p |-> g[p[k]].index]
           \o [k \in DOMAIN tail |-> tail[k].index] : p \in perms}

\* site_data.sort_values('Created_dt').reset_index(drop=True), the order of
\* equal timestamps taken from outcome
sort_values(g, order) ==
    LET here(i) == \E k \in DOMAIN g : g[k].index = i
        labels == SelectSeq(order, here)
    IN  [k \in DOMAIN labels |->
            CHOOSE r \in Range(g) : r.index = labels[k]]

-----------------------------------------------------------------------------
(* DuplicateDetector._categorize_time_difference; time_diff in ticks *)

\* mutant: the 4-hour boundary belongs to the next bucket
categorize_time_difference_exclusive(time_diff) ==
    IF time_diff <= 1 * TicksPerHour THEN "0-1h"
    ELSE IF time_diff < 4 * TicksPerHour THEN "1-4h"
    ELSE IF time_diff <= 8 * TicksPerHour THEN "4-8h"
    ELSE IF time_diff <= 24 * TicksPerHour THEN "8-24h"
    ELSE IF time_diff <= 72 * TicksPerHour THEN "1-3d"
    ELSE IF time_diff <= 168 * TicksPerHour THEN "3-7d"
    ELSE ">7d"

categorize_time_difference(time_diff) ==
    IF time_diff <= 1 * TicksPerHour THEN "0-1h"
    ELSE IF time_diff <= 4 * TicksPerHour THEN "1-4h"
    ELSE IF time_diff <= 8 * TicksPerHour THEN "4-8h"
    ELSE IF time_diff <= 24 * TicksPerHour THEN "8-24h"
    ELSE IF time_diff <= 72 * TicksPerHour THEN "1-3d"
    ELSE IF time_diff <= 168 * TicksPerHour THEN "3-7d"
    ELSE ">7d"

-----------------------------------------------------------------------------
(* The windowed scan.  The source holds it three times, differing only in  *)
(* the window's unit and the dictionary emitted:                           *)
(*   _find_duplicates_in_site_max_timeframe  (kind "max",    lines 392-438)*)
(*   _find_duplicates_in_site                (kind "legacy", lines 486-528)*)
(*   _analyze_rapid_fire_duplicates          (kind "rapid",  lines 224-261)*)
(* A scan is described by cx = [kind, window, max_time_delta, threshold,   *)
(* fuzzy, site_name].                                                      *)

\* timedelta(hours=max_hours)
\* mutant: every window is a day long
timedelta_hours_day(hours) == 24 * TicksPerHour

timedelta_hours(hours) == hours * TicksPerHour

\* mutant: every rapid-fire window is an hour long
timedelta_minutes_hour(minutes) == TicksPerHour

\* timedelta(hours=window_hours) for a window given in minutes
timedelta_minutes(minutes) == minutes \div MinutesPerTick

\* mutant: the inner scan never ends early
past_window_never(time_diff, max_time_delta) == FALSE

\* mutant: a ticket exactly max_time_delta later ends the inner scan
past_window_inclusive(time_diff, max_time_delta) == time_diff >= max_time_delta

\* mutant: the comparison the other way round
past_window_reversed(time_diff, max_time_delta) == time_diff < max_time_delta

\* lines 409, 503, 239: the test that ends the inner scan
past_window(time_diff, max_time_delta) == time_diff > max_time_delta

\* mutant: only a score equal to the threshold emits a pair
meets_threshold_exactly(similarity_score, threshold) == similarity_score = threshold

\* lines 418, 512, 248: the test that emits a pair
meets_threshold(similarity_score, threshold) == similarity_score >= threshold

\* mutant: the inner scan starts at the first record
first_inner_from_start(i) == 1

\* lines 400, 494, 231: where the inner scan of position i starts
first_inner(i) == i + 1

\* lines 422-437: the emitted dictionary (row1, row2: the rows' labels in
\* the caller's frame, kept to tell rows with equal fields apart)
duplicate_pair(ticket1, ticket2, time_diff, similarity_score) ==
    [site |-> ticket1.Site,
     ticket1_number |-> ticket1.Number,
     ticket1_description |-> ticket1.Short_description,
     ticket1_created_dt |-> ticket1.Created_dt,
     ticket2_number |-> ticket2.Number,
     ticket2_description |-> ticket2.Short_description,
     ticket2_created_dt |-> ticket2.Created_dt,
     time_difference |-> time_diff,
     time_category |-> categorize_time_difference(time_diff),
     similarity_score |-> similarity_score,
     row1 |-> ticket1.index,
     row2 |-> ticket2.index]

\* lines 513-527
legacy_pair(ticket1, ticket2, time_diff, similarity_score, time_window_hours) ==
    [site |-> ticket1.Site,
     ticket1_number |-> ticket1.Number,
     ticket1_description |-> ticket1.Short_description,
     ticket1_created_dt |-> ticket1.Created_dt,
     ticket2_number |-> ticket2.Number,
     ticket2_description |-> ticket2.Short_description,
     ticket2_created_dt |-> ticket2.Created_dt,
     time_difference |-> time_diff,
     similarity_score |-> similarity_score,
     time_window_hours |-> time_window_hours,
     row1 |-> ticket1.index,
     row2 |-> ticket2.index]

\* lines 575-579: hours, minutes and seconds of "H:MM:SS"
format_time_difference(time_diff) ==
    LET total_seconds == time_diff * MinutesPerTick * 60
    IN  <<total_seconds \div 3600, (total_seconds % 3600) \div 60,
          total_seconds % 60>>

\* lines 249-260
rapid_result(site_name, window_minutes, ticket1, ticket2, time_diff, score) ==
    [site |-> site_name,
     time_window_minutes |-> window_minutes,
     ticket_1 |-> ticket1.Number,
     ticket_1_description |-> ticket1.Short_description,
     ticket_2 |-> ticket2.Number,
     ticket_2_description |-> ticket2.Short_description,
     time_difference |-> format_time_difference(time_diff),
     similarity_score |-> score,
     row1 |-> ticket1.index,
     row2 |-> ticket2.index]

emitted(cx, ticket1, ticket2, time_diff, similarity_score) ==
    CASE cx.kind = "max" ->
           duplicate_pair(ticket1, ticket2, time_diff, similarity_score)
      [] cx.kind = "legacy" ->
           legacy_pair(ticket1, ticket2, time_diff, similarity_score, cx.window)
      [] cx.kind = "rapid" ->
           rapid_result(cx.site_name, cx.window, ticket1, ticket2, time_diff,
                        similarity_score)

\* the inner loop from position j (1-based) on
RECURSIVE inner_scan(_, _, _, _, _)
inner_scan(cx, site_data, i, j, duplicates) ==
    IF j > Len(site_data) THEN duplicates
    ELSE LET ticket1 == site_data[i]
             ticket2 == site_data[j]
         IN  IF isnat(ticket2.Created_dt)
             THEN inner_scan(cx, site_data, i, j + 1, duplicates)  \* continue
             ELSE LET time_diff == ticket2.Created_dt - ticket1.Created_dt
                      similarity_score ==
                          calculate_similarity(cx.fuzzy,
                              ticket1.Short_description,
                              ticket2.Short_description)
                  IN  IF past_window(time_diff, cx.max_time_delta)
                      THEN duplicates                              \* break
                      ELSE Bind(IF meets_threshold(similarity_score,
                                                   cx.threshold)
                                THEN Append(duplicates,
                                         emitted(cx, ticket1, ticket2,
                                                 time_diff, similarity_score))
                                ELSE duplicates,
                                LAMBDA found :
                                   inner_scan(cx, site_data, i, j + 1, found))

\* the outer loop from position i (1-based) on
RECURSIVE outer_scan(_, _, _, _)
outer_scan(cx, site_data, i, duplicates) ==
    IF i > Len(site_data) THEN duplicates
    ELSE IF isnat(site_data[i].Created_dt)
    THEN outer_scan(cx, site_data, i + 1, duplicates)              \* continue
    ELSE Bind(inner_scan(cx, site_data, i, first_inner(i), duplicates),
              LAMBDA found : outer_scan(cx, site_data, i + 1, found))

find_duplicates_in_site_max_timeframe(site_data, hours, threshold, fuzzy) ==
    outer_scan([kind |-> "max", window |-> hours,
                max_time_delta |-> timedelta_hours(hours),
                threshold |-> threshold, fuzzy |-> fuzzy, site_name |-> ""],
               site_data, 1, <<>>)

find_duplicates_in_site(site_data, time_window_hours, threshold, fuzzy) ==
    outer_scan([kind |-> "legacy", window |-> time_window_hours,
                max_time_delta |-> timedelta_hours(time_window_hours),
                threshold |-> threshold, fuzzy |-> fuzzy, site_name |-> ""],
               site_data, 1, <<>>)

-----------------------------------------------------------------------------
(* list.sort(key=similarity_score, reverse=True) and sorted(...): stable *)

\* mutant: x goes ahead of the elements with its own score
RECURSIVE insert_by_score_unstable(_, _)
insert_by_score_unstable(sorted, x) ==
    IF sorted = <<>> THEN <<x>>
    ELSE IF Head(sorted).similarity_score > x.similarity_score
    THEN <<Head(sorted)>> \o insert_by_score_unstable(Tail(sorted), x)
    ELSE <<x>> \o sorted

\* x goes behind every element whose score is at least its own
RECURSIVE insert_by_score(_, _)
insert_by_score(sorted, x) ==
    IF sorted = <<>> THEN <<x>>
    ELSE IF Head(sorted).similarity_score >= x.similarity_score
    THEN <<Head(sorted)>> \o insert_by_score(Tail(sorted), x)
    ELSE <<x>> \o sorted

RECURSIVE sort_by_score_from(_, _, _)
sort_by_score_from(l, k, sorted) ==
    IF k > Len(l) THEN sorted
    ELSE Bind(insert_by_score(sorted, l[k]), LAMBDA longer :
             sort_by_score_from(l, k + 1, longer))

sort_by_score(l) == sort_by_score_from(l, 1, <<>>)

-----------------------------------------------------------------------------
(* DuplicateDetector.analyze *)

\* mutant: the scan is handed the whole frame, not the site's group
sorted_site_data_ungrouped(fr, outcome, site_name) == fr

\* line 55
sorted_site_data(fr, outcome, site_name) ==
    sort_values(group_rows(fr, site_name), outcome[site_name])

\* mutant: the callback is called once the scan of the site is over
site_events_scan_first(keys, site_idx) ==
    <<[ev |-> "scanned", current |-> site_idx + 1, total |-> Len(keys),
       site |-> keys[site_idx + 1]],
      [ev |-> "progress", current |-> site_idx + 1, total |-> Len(keys),
       site |-> keys[site_idx + 1]]>>

\* the callback of line 51 and, once the scan of line 58 is over, its mark
site_events(keys, site_idx) ==
    <<[ev |-> "progress", current |-> site_idx + 1, total |-> Len(keys),
       site |-> keys[site_idx + 1]],
      [ev |-> "scanned", current |-> site_idx + 1, total |-> Len(keys),
       site |-> keys[site_idx + 1]]>>

\* lines 49-61: the loop over the site groups, from site_idx (0-based) on.
\* acc.dups is all_duplicates, acc.events the log.
RECURSIVE analyze_loop(_, _, _, _, _, _, _, _)
analyze_loop(fr, outcome, keys, site_idx, hours, threshold, fuzzy, acc) ==
    IF site_idx >= Len(keys) THEN acc
    ELSE Bind(sorted_site_data(fr, outcome, keys[site_idx + 1]),
              LAMBDA site_data :
         Bind(find_duplicates_in_site_max_timeframe(site_data, hours,
                                                    threshold, fuzzy),
              LAMBDA site_duplicates :
         Bind([dups |-> acc.dups \o site_duplicates,
               events |-> acc.events \o site_events(keys, site_idx)],
              LAMBDA extended :
         analyze_loop(fr, outcome, keys, site_idx + 1, hours, threshold,
                      fuzzy, extended))))

\* the whole call: what it returns and what it did
analyze(fr, outcome, hours, threshold, fuzzy) ==
    IF fr = <<>> THEN [ret |-> <<>>, events |-> <<>>]
    ELSE Bind(groupby_keys(fr), LAMBDA keys :
         Bind(analyze_loop(fr, outcome, keys, 0, hours, threshold, fuzzy,
                           [dups |-> <<>>, events |-> <<>>]),
              LAMBDA run :
                 [ret |-> sort_by_score(run.dups), events |-> run.events]))

-----------------------------------------------------------------------------
(* DuplicateDetector.analyze_legacy *)

\* lines 98-102: the loop over time_windows for one site, from position w on
RECURSIVE legacy_windows(_, _, _, _, _, _)
legacy_windows(site_data, time_windows, w, threshold, fuzzy, res) ==
    IF w > Len(time_windows) THEN res
    ELSE Bind([res EXCEPT ![time_windows[w]] =
                  @ \o find_duplicates_in_site(site_data, time_windows[w],
                                               threshold, fuzzy)],
              LAMBDA extended :
                 legacy_windows(site_data, time_windows, w + 1, threshold,
                                fuzzy, extended))

\* lines 89-102
RECURSIVE legacy_loop(_, _, _, _, _, _, _, _)
legacy_loop(fr, outcome, keys, site_idx, time_windows, threshold, fuzzy, acc) ==
    IF site_idx >= Len(keys) THEN acc
    ELSE Bind(sorted_site_data(fr, outcome, keys[site_idx + 1]),
              LAMBDA site_data :
         Bind([res |-> legacy_windows(site_data, time_windows, 1, threshold,
                                      fuzzy, acc.res),
               events |-> acc.events \o site_events(keys, site_idx)],
              LAMBDA extended :
         legacy_loop(fr, outcome, keys, site_idx + 1, time_windows, threshold,
                     fuzzy, extended)))

analyze_legacy(fr, outcome, time_windows, threshold, fuzzy) ==
    LET empty == [w \in Range(time_windows) |-> <<>>]
    IN  IF fr = <<>> THEN [ret |-> empty, events |-> <<>>]
        ELSE Bind(groupby_keys(fr), LAMBDA keys :
             Bind(legacy_loop(fr, outcome, keys, 0, time_windows, threshold,
                              fuzzy, [res |-> empty, events |-> <<>>]),
                  LAMBDA run :
                     [ret |-> [w \in DOMAIN run.res |->
                                 sort_by_score(run.res[w])],
                      events |-> run.events]))

-----------------------------------------------------------------------------
(* DuplicateDetector._analyze_rapid_fire_duplicates *)

\* line 214: [0.25, 0.5, 1] hours, written in minutes
rapid_windows == <<15, 30, 60>>

\* lines 220-261: the loop over the windows for one site, from position w on
RECURSIVE rapid_site(_, _, _, _, _, _)
rapid_site(site_data, site_name, w, threshold, fuzzy, res) ==
    IF w > Len(rapid_windows) THEN res
    ELSE Bind(outer_scan([kind |-> "rapid", window |-> rapid_windows[w],
                          max_time_delta |->
                              timedelta_minutes(rapid_windows[w]),
                          threshold |-> threshold, fuzzy |-> fuzzy,
                          site_name |-> site_name],
                         site_data, 1, res),
              LAMBDA extended :
                 rapid_site(site_data, site_name, w + 1, threshold, fuzzy,
                            extended))

\* lines 217-261
RECURSIVE rapid_loop(_, _, _, _, _, _, _)
rapid_loop(fr, outcome, keys, site_idx, threshold, fuzzy, res) ==
    IF site_idx >= Len(keys) THEN res
    ELSE Bind(sorted_site_data(fr, outcome, keys[site_idx + 1]),
              LAMBDA site_data :
         Bind(rapid_site(site_data, keys[site_idx + 1], 1, threshold, fuzzy,
                         res),
              LAMBDA extended :
         rapid_loop(fr, outcome, keys, site_idx + 1, threshold, fuzzy,
                    extended)))

analyze_rapid_fire_duplicates(fr, outcome, threshold, fuzzy) ==
    [ret |-> Bind(groupby_keys(fr), LAMBDA keys :
                 sort_by_score(rapid_loop(fr, outcome, keys, 0, threshold,
                                          fuzzy, <<>>))),
     events |-> <<[ev |-> "progress", current |-> 2, total |-> 4,
                   site |-> ""]>>]

-----------------------------------------------------------------------------
(* cli_main.main and DuplicateTicketCLI.run, for an input file that exists *)
(* and loads; fr is csv_parser.get_filtered_data(...)                      *)

\* mutant: only the upper end of the range is checked
valid_similarity_upper(similarity) == similarity <= 100

\* cli_main.py:237
valid_similarity(similarity) == 50 <= similarity /\ similarity <= 100

\* cli_main.py:76: analyze(data, time_windows, args.similarity) is handed the
\* list of windows as max_hours.  The first site's callback runs (line 51),
\* then timedelta(hours=max_hours) of line 389 raises TypeError.
cli_analyze(fr) ==
    IF fr = <<>> THEN [raised |-> "", events |-> <<>>]
    ELSE Bind(groupby_keys(fr), LAMBDA keys :
             IF keys = <<>> THEN [raised |-> "", events |-> <<>>]
             ELSE [raised |-> "TypeError",
                   events |-> <<site_events(keys, 0)[1]>>])

\* cli_main.py:22-93; display_results of a list raises AttributeError
cli_run(fr) ==
    IF fr = <<>> THEN [status |-> 1, events |-> <<>>]              \* line 65
    ELSE Bind(cli_analyze(fr), LAMBDA run :
             [status |-> 1, events |-> run.events])

\* cli_main.py:229-262: the exit status and what the run did
cli_main(fr, similarity) ==
    IF ~valid_similarity(similarity) THEN [status |-> 1, events |-> <<>>]
    ELSE cli_run(fr)                      \* any exception: status 1 (258)

-----------------------------------------------------------------------------
(* The inputs of the model *)

Sites == Range(SiteOrder)
Numbers == 1 .. MaxNumber

\* timestamps: at the hour boundary and one tick past it, or absent
Times == {0, TicksPerHour, TicksPerHour + 1, NaT}

frame(n, s, m, d, c) ==
    [k \in 1 .. n |->
        [index |-> k, Site |-> s[k], Number |-> m[k],
         Short_description |-> d[k], Created_dt |-> c[k]]]

\* The two letters can be renamed without changing any score, and ticket
\* numbers without changing what is compared: the first row has
\* description "ab" and number 1.
descriptions_of(n) == {f \in [1 .. n -> Descriptions] : n >= 1 => f[1] = ab}

\* frames of at most MaxRecords rows with distinct ticket numbers
ScanFrames ==
    UNION {{frame(n, s, [k \in 1 .. n |-> k], d, c) :
              s \in [1 .. n -> Sites], d \in descriptions_of(n),
              c \in [1 .. n -> Times]} :
           n \in 0 .. MaxRecords}

\* frames whose ticket numbers may repeat, within a site and across sites:
\* equal descriptions, equal timestamps
RepeatFrames ==
    UNION {{frame(n, s, m, [k \in 1 .. n |-> ab], [k \in 1 .. n |-> 0]) :
              s \in [1 .. n -> Sites],
              m \in {f \in [1 .. n -> Numbers] : f[1] = 1}} :
           n \in 2 .. MaxRecords}

\* two sites of two tickets each, so that two groups emit pairs
TwoSiteFrames ==
    {frame(4, s, [k \in 1 .. 4 |-> k], d, [k \in 1 .. 4 |-> 0]) :
        s \in {f \in [1 .. 4 -> Sites] :
                 Cardinality({k \in 1 .. 4 : f[k] = "A"}) = 2},
        d \in descriptions_of(4)}

\* two tickets of one site with equal descriptions, as far apart as each
\* boundary of the elapsed-time buckets and one tick further
BucketBounds == {1, 4, 8, 24, 72, 168}
BucketDiffs ==
    {0} \cup UNION {{b * TicksPerHour, b * TicksPerHour + 1} : b \in BucketBounds}
LongWindows == BucketBounds \cup {2 * 168}

BucketFrames ==
    {frame(2, <<"A", "A">>, <<1, 2>>, <<ab, ab>>, <<0, diff>>) :
        diff \in BucketDiffs}

\* the outcomes of sorting each site group of a frame
sort_outcomes(fr) ==
    {f \in [Sites -> UNION {sorted_orders(group_rows(fr, s)) : s \in Sites}] :
        \A s \in Sites : f[s] \in sorted_orders(group_rows(fr, s))}

\* windows and thresholds the caller passes; the detector does not check
\* them, so a window of 0 hours is among them
WindowHours == {0, 1}
Thresholds == {50, 100}

\* the time_windows lists handed to analyze_legacy
WindowLists == {<<0, 1>>}

\* thresholds next to the ends of the range the callers accept
OutOfRange == {49, 101}

\* configurations the callers would not pass: a threshold out of range or a
\* window that is not positive
InvalidConfigurations ==
    {c \in {-1, 0, 1} \X (OutOfRange \cup {50}) : c[1] <= 0 \/ c[2] \in OutOfRange}

\* frames of at most two rows, on which the out-of-range thresholds are run
SmallFrames == {fr \in ScanFrames : Len(fr) <= 2}

-----------------------------------------------------------------------------
(* The state machine: the caller constructs a detector (cli_main.py:74,    *)
(* main.py:482) and runs one operation on it.                              *)

Init ==
    /\ data \in ScanFrames \cup RepeatFrames \cup TwoSiteFrames \cup BucketFrames
    /\ sort_outcome \in sort_outcomes(data)
    /\ \/ /\ data \in ScanFrames \cup RepeatFrames \cup TwoSiteFrames
          /\ max_hours \in WindowHours
          /\ similarity_threshold \in Thresholds
       \/ /\ data \in BucketFrames
          /\ max_hours \in LongWindows
          /\ similarity_threshold = 100
       \/ /\ data \in SmallFrames
          /\ \E c \in InvalidConfigurations :
                /\ max_hours = c[1]
                /\ similarity_threshold = c[2]
    /\ HAS_FUZZYWUZZY \in BOOLEAN
    /\ enable = {}
    /\ OthersIdle
    /\ op = "none"
    /\ events = <<>>
    /\ results = <<>>
    /\ ret = <<>>

\* DuplicateDetector.analyze(data, max_hours, similarity_threshold)
Analyze ==
    /\ op = "none"
    /\ LET run == analyze(data, sort_outcome, max_hours,
                          similarity_threshold, HAS_FUZZYWUZZY)
       IN  /\ ret' = run.ret
           /\ events' = run.events
    /\ op' = "analyze"
    /\ UNCHANGED <<enable, others, HAS_FUZZYWUZZY, data, sort_outcome, max_hours,
                   similarity_threshold, results>>

\* DuplicateDetector.analyze_legacy(data, time_windows, similarity_threshold)
AnalyzeLegacy ==
    /\ op = "none"
    /\ \E time_windows \in WindowLists :
          LET run == analyze_legacy(data, sort_outcome, time_windows,
                                    similarity_threshold, HAS_FUZZYWUZZY)
          IN  /\ results' = run.ret
              /\ ret' = run.ret
              /\ events' = run.events
    /\ op' = "analyze_legacy"
    /\ UNCHANGED <<enable, others, HAS_FUZZYWUZZY, data, sort_outcome, max_hours,
                   similarity_threshold>>

\* DuplicateDetector._analyze_rapid_fire_duplicates(data, similarity_threshold)
AnalyzeRapidFire ==
    /\ op = "none"
    /\ data # <<>>
    /\ LET run == analyze_rapid_fire_duplicates(data, sort_outcome,
                      similarity_threshold, HAS_FUZZYWUZZY)
       IN  /\ ret' = run.ret
           /\ events' = run.events
    /\ op' = "rapid_fire"
    /\ UNCHANGED <<enable, others, HAS_FUZZYWUZZY, data, sort_outcome, max_hours,
                   similarity_threshold, results>>

\* cli_main.main() with --similarity similarity_threshold.  The parser hands
\* over no record without a timestamp (csv_parser.py:105-107 raises on one).
CliMain ==
    /\ op = "none"
    /\ \A k \in DOMAIN data : ~isnat(data[k].Created_dt)
    /\ LET run == cli_main(data, similarity_threshold)
       IN  /\ ret' = run.status
           /\ events' = run.events
    /\ op' = "cli_main"
    /\ UNCHANGED <<enable, others, HAS_FUZZYWUZZY, data, sort_outcome, max_hours,
                   similarity_threshold, results>>

Next == Analyze \/ AnalyzeLegacy \/ AnalyzeRapidFire \/ CliMain

Spec == Init /\ [][Next]_vars

-----------------------------------------------------------------------------
(* Properties of the matcher.  A pair names its two records by row1 and     *)
(* row2, their labels in data (a label is the row's position in data).      *)

\* the tickets of pair p
left(p) == data[p.row1]
right(p) == data[p.row2]

\* the window of the run, in ticks
window_ticks == max_hours * TicksPerHour

\* records of the frame that carry a timestamp
timestamped(fr) ==
    LET present(r) == r.Created_dt # NaT
    IN  SelectSeq(fr, present)

\* records of the frame that belong to origin s
of_origin(fr, s) ==
    LET member(r) == r.Site = s
    IN  SelectSeq(fr, member)

\* the pairs of a list that belong to origin s
pairs_of_origin(l, s) ==
    LET member(p) == p.site = s
    IN  SelectSeq(l, member)

\* C1: every pair returned by analyze has both timestamps, a time difference
\* of at least 0 and at most max_hours (inclusive), and a similarity score,
\* the score of its two descriptions, of at least the threshold.
C1_PairsWithinWindowAndThreshold ==
    op = "analyze" =>
        \A k \in DOMAIN ret :
            /\ ret[k].ticket1_created_dt = left(ret[k]).Created_dt
            /\ ret[k].ticket2_created_dt = right(ret[k]).Created_dt
            /\ ret[k].ticket1_created_dt # NaT
            /\ ret[k].ticket2_created_dt # NaT
            /\ ret[k].time_difference =
                   ret[k].ticket2_created_dt - ret[k].ticket1_created_dt
            /\ 0 <= ret[k].time_difference
            /\ ret[k].time_difference <= window_ticks
            /\ ret[k].similarity_score =
                   calculate_similarity(HAS_FUZZYWUZZY,
                       left(ret[k]).Short_description,
                       right(ret[k]).Short_description)
            /\ ret[k].similarity_score >= similarity_threshold

\* a pair exactly max_hours apart was returned, while two similar tickets of
\* one origin one tick further apart were not
C1_Witness ==
    /\ op = "analyze"
    /\ max_hours = 1
    /\ \E k \in DOMAIN ret : ret[k].time_difference = window_ticks
    /\ \E i, j \in DOMAIN data :
          /\ data[i].Site = data[j].Site
          /\ data[i].Created_dt # NaT
          /\ data[j].Created_dt = data[i].Created_dt + window_ticks + 1
          /\ calculate_similarity(HAS_FUZZYWUZZY, data[i].Short_description,
                 data[j].Short_description) >= similarity_threshold
          /\ \A k \in DOMAIN ret : ~(ret[k].row1 = i /\ ret[k].row2 = j)

\* C2: for every origin and every two positions i < j of its time-sorted
\* records that both carry a timestamp, lie at most max_hours apart and score
\* at least the threshold, analyze returns exactly one pair (i, j).
C2_EveryQualifyingPairOnce ==
    op = "analyze" =>
        \A s \in Sites :
            LET site_data == sorted_site_data(data, sort_outcome, s)
            IN  \A i, j \in DOMAIN site_data :
                   (/\ i < j
                    /\ site_data[i].Created_dt # NaT
                    /\ site_data[j].Created_dt # NaT
                    /\ site_data[j].Created_dt - site_data[i].Created_dt
                           <= window_ticks
                    /\ calculate_similarity(HAS_FUZZYWUZZY,
                           site_data[i].Short_description,
                           site_data[j].Short_description)
                           >= similarity_threshold)
                   => Cardinality({k \in DOMAIN ret :
                          /\ ret[k].row1 = site_data[i].index
                          /\ ret[k].row2 = site_data[j].index}) = 1

\* three tickets of one origin inside the window, only the first two alike:
\* one pair, the first two
C2_Witness ==
    /\ op = "analyze"
    /\ Len(data) = 3
    /\ \A k \in DOMAIN data : data[k].Site = "A" /\ data[k].Created_dt = 0
    /\ data[2].Short_description = data[1].Short_description
    /\ data[3].Short_description # data[1].Short_description
    /\ similarity_threshold = 100
    /\ Len(ret) = 1
    /\ {ret[1].row1, ret[1].row2} = {1, 2}

\* the identifiers of a pair, unordered
identifiers(p) == {p.ticket1_number, p.ticket2_number}

\* the ticket numbers of the input are pairwise distinct
distinct_numbers == \A i, j \in DOMAIN data : i # j => data[i].Number # data[j].Number

\* C3 as stated: no unordered pair of identifiers appears twice in the output
\* of one analyze run, whatever the input.
C3_NoIdentifierPairTwice ==
    op = "analyze" =>
        \A a, b \in DOMAIN ret : a # b => identifiers(ret[a]) # identifiers(ret[b])

\* C3, amended: no unordered pair of records appears twice in the output of
\* one analyze run and no record is paired with itself; when the ticket
\* numbers of the input are pairwise distinct, no unordered pair of
\* identifiers appears twice either.
C3_NoRecordPairTwice ==
    op = "analyze" =>
        /\ \A a \in DOMAIN ret : ret[a].row1 # ret[a].row2
        /\ \A a, b \in DOMAIN ret :
              a # b => {ret[a].row1, ret[a].row2} # {ret[b].row1, ret[b].row2}
        /\ distinct_numbers =>
              \A a, b \in DOMAIN ret :
                  a # b => identifiers(ret[a]) # identifiers(ret[b])

\* three tickets with distinct numbers gave all three pairs
C3_Witness ==
    /\ op = "analyze"
    /\ distinct_numbers
    /\ Len(data) = 3
    /\ Len(ret) = 3

\* C4: in every pair returned by analyze, analyze_legacy and the rapid-fire
\* detector both tickets belong to the pair's Site, and the pairs reported
\* for an origin are those reported when the input holds that origin alone.
C4_NoCrossOriginComparison ==
    /\ op \in {"analyze", "rapid_fire"} =>
          \A k \in DOMAIN ret :
              left(ret[k]).Site = ret[k].site /\ right(ret[k]).Site = ret[k].site
    /\ op = "analyze_legacy" =>
          \A w \in DOMAIN ret : \A k \in DOMAIN ret[w] :
              /\ left(ret[w][k]).Site = ret[w][k].site
              /\ right(ret[w][k]).Site = ret[w][k].site
    /\ op = "analyze" =>
          \A s \in Sites :
              pairs_of_origin(ret, s) =
                  analyze(of_origin(data, s), sort_outcome, max_hours,
                          similarity_threshold, HAS_FUZZYWUZZY).ret
    /\ op = "analyze_legacy" =>
          \A s \in Sites : \A tw \in WindowLists :
              DOMAIN ret = Range(tw) =>
                  \A w \in DOMAIN ret :
                      pairs_of_origin(ret[w], s) =
                          analyze_legacy(of_origin(data, s), sort_outcome, tw,
                              similarity_threshold, HAS_FUZZYWUZZY).ret[w]
    /\ op = "rapid_fire" =>
          \A s \in Sites :
              of_origin(data, s) # <<>> =>
                  pairs_of_origin(ret, s) =
                      analyze_rapid_fire_duplicates(of_origin(data, s),
                          sort_outcome, similarity_threshold,
                          HAS_FUZZYWUZZY).ret

\* both origins of the input gave a pair
C4_Witness ==
    /\ op = "analyze"
    /\ \E k \in DOMAIN ret : ret[k].site = "A"
    /\ \E k \in DOMAIN ret : ret[k].site = "B"

\* C5: no record without a timestamp appears in a pair returned by analyze,
\* and the pairs returned are those returned for the input without its
\* timestamp-less records.
C5_AbsentTimestampsSkipped ==
    op = "analyze" =>
        /\ \A k \in DOMAIN ret :
              left(ret[k]).Created_dt # NaT /\ right(ret[k]).Created_dt # NaT
        /\ ret = analyze(timestamped(data), sort_outcome, max_hours,
                         similarity_threshold, HAS_FUZZYWUZZY).ret

\* a record without a timestamp stands between two records of its origin in
\* the input, and those two were paired
C5_Witness ==
    /\ op = "analyze"
    /\ Len(data) = 3
    /\ data[2].Created_dt = NaT
    /\ data[1].Site = data[2].Site
    /\ data[3].Site = data[2].Site
    /\ Len(ret) = 1

\* the configuration is one the callers are to refuse
invalid_configuration ==
    similarity_threshold < 50 \/ similarity_threshold > 100 \/ max_hours <= 0

\* the pairs <<row1, row2>> that qualify under the values given: positions
\* i < j of an origin's sorted records, both timestamped, at most max_hours
\* apart, scoring at least the threshold
qualifying_pairs ==
    UNION {LET site_data == sorted_site_data(data, sort_outcome, s)
           IN  {<<site_data[p[1]].index, site_data[p[2]].index>> :
                   p \in {q \in (DOMAIN site_data) \X (DOMAIN site_data) :
                       /\ q[1] < q[2]
                       /\ site_data[q[1]].Created_dt # NaT
                       /\ site_data[q[2]].Created_dt # NaT
                       /\ site_data[q[2]].Created_dt - site_data[q[1]].Created_dt
                              <= window_ticks
                       /\ calculate_similarity(HAS_FUZZYWUZZY,
                              site_data[q[1]].Short_description,
                              site_data[q[2]].Short_description)
                              >= similarity_threshold}} :
           s \in Sites}

AllThresholds == Thresholds \cup OutOfRange

\* C7: for the same records and max_hours, the pairs analyze returns with a
\* higher threshold are among those it returns with the lower one, and are no
\* more.
C7_ThresholdMonotone ==
    op = "analyze" =>
        \A t2 \in AllThresholds :
            t2 > similarity_threshold =>
                LET higher == analyze(data, sort_outcome, max_hours, t2,
                                      HAS_FUZZYWUZZY).ret
                IN  /\ Range(higher) \subseteq Range(ret)
                    /\ Len(higher) <= Len(ret)

\* threshold 50 gave three pairs of which threshold 100 keeps one
C7_Witness ==
    /\ op = "analyze"
    /\ similarity_threshold = 50
    /\ Len(ret) = 3
    /\ Len(analyze(data, sort_outcome, max_hours, 100, HAS_FUZZYWUZZY).ret) = 1

\* every window the model runs
AllWindows == WindowHours \cup LongWindows \cup {-1}

\* C8: for the same records and threshold, every pair analyze returns with a
\* smaller max_hours is returned with a larger one, and the larger one returns
\* no fewer.
C8_WindowMonotone ==
    op = "analyze" =>
        \A h2 \in AllWindows :
            h2 > max_hours =>
                LET wider == analyze(data, sort_outcome, h2,
                                     similarity_threshold, HAS_FUZZYWUZZY).ret
                IN  /\ Range(ret) \subseteq Range(wider)
                    /\ Len(ret) <= Len(wider)

\* a window of 0 hours gave one pair where a window of 1 hour gives three
C8_Witness ==
    /\ op = "analyze"
    /\ max_hours = 0
    /\ Len(ret) = 1
    /\ Len(analyze(data, sort_outcome, 1, similarity_threshold,
                   HAS_FUZZYWUZZY).ret) = 3

\* where a record stands in its origin's sorted order
position(s, label) ==
    CHOOSE k \in DOMAIN sort_outcome[s] : sort_outcome[s][k] = label

\* where an origin stands in the iteration over the groups
site_rank(s) == CHOOSE k \in DOMAIN SiteOrder : SiteOrder[k] = s

\* pair p was emitted before pair q: origin groups in iteration order, then
\* outer index, then inner index
emitted_before(p, q) ==
    \/ site_rank(p.site) < site_rank(q.site)
    \/ /\ p.site = q.site
       /\ \/ position(p.site, p.row1) < position(q.site, q.row1)
          \/ /\ p.row1 = q.row1
             /\ position(p.site, p.row2) < position(q.site, q.row2)

\* C9: the list analyze returns is ordered by similarity_score, highest
\* first, and pairs of equal score stand in the order they were emitted.
C9_SortedByScoreStable ==
    op = "analyze" =>
        \A a, b \in DOMAIN ret :
            a < b =>
                \/ ret[a].similarity_score > ret[b].similarity_score
                \/ /\ ret[a].similarity_score = ret[b].similarity_score
                   /\ emitted_before(ret[a], ret[b])

\* the sort moved a pair ahead of two pairs of equal score emitted before it
C9_Witness ==
    /\ op = "analyze"
    /\ \E a, b, c \in DOMAIN ret :
          /\ a < b
          /\ b < c
          /\ ret[a].similarity_score > ret[b].similarity_score
          /\ ret[b].similarity_score = ret[c].similarity_score
          /\ emitted_before(ret[b], ret[a])
          /\ emitted_before(ret[c], ret[a])

\* the buckets: the hours above which and up to which each applies
\* (the last one has no upper end)
bucket_hours ==
    [c \in {"0-1h", "1-4h", "4-8h", "8-24h", "1-3d", "3-7d", ">7d"} |->
        CASE c = "0-1h" -> <<0, 1>>
          [] c = "1-4h" -> <<1, 4>>
          [] c = "4-8h" -> <<4, 8>>
          [] c = "8-24h" -> <<8, 24>>
          [] c = "1-3d" -> <<24, 72>>
          [] c = "3-7d" -> <<72, 168>>
          [] c = ">7d" -> <<168, 168>>]

\* C10: the bucket of every pair analyze returns is the first whose inclusive
\* upper end its time difference does not exceed (<=1h '0-1h', <=4h '1-4h',
\* <=8h '4-8h', <=24h '8-24h', <=72h '1-3d', <=168h '3-7d', else '>7d'), and
\* no bucket's lower end exceeds max_hours.
C10_TimeBuckets ==
    op = "analyze" =>
        \A k \in DOMAIN ret :
            LET c == ret[k].time_category
                d == ret[k].time_difference
            IN  /\ c \in DOMAIN bucket_hours
                /\ c # "0-1h" => d > bucket_hours[c][1] * TicksPerHour
                /\ c # ">7d" => d <= bucket_hours[c][2] * TicksPerHour
                /\ bucket_hours[c][1] <= max_hours

\* a pair exactly 4 hours apart was returned in bucket '1-4h'
C10_Witness ==
    /\ op = "analyze"
    /\ \E k \in DOMAIN ret :
          /\ ret[k].time_difference = 4 * TicksPerHour
          /\ ret[k].time_category = "1-4h"

-----------------------------------------------------------------------------
(* The scorer on its own: the scan hands _calculate_similarity the          *)
(* descriptions of two tickets (lines 413-416).  SimpleDuplicateDetector's  *)
(* scorer (duplicate_detector_simple.py:92-106) is the difflib branch.      *)

MaxLen == 3
Alphabet == {"a", "b", " "}

\* descriptions of at most MaxLen characters, two with capitals, and absent
ScorerDescriptions ==
    UNION {[1 .. n -> Alphabet] : n \in 0 .. MaxLen}
        \cup {<<"A">>, <<"A", "B">>, NaN}

ScorerInit ==
    /\ \E desc1, desc2 \in ScorerDescriptions :
          data = frame(2, <<"A", "A">>, <<1, 2>>, <<desc1, desc2>>,
                       <<0, TicksPerHour>>)
    /\ sort_outcome \in sort_outcomes(data)
    /\ max_hours = 1
    /\ similarity_threshold = 50
    /\ HAS_FUZZYWUZZY \in BOOLEAN
    /\ enable = {}
    /\ OthersIdle
    /\ op = "none"
    /\ events = <<>>
    /\ results = <<>>
    /\ ret = <<>>

\* self._calculate_similarity(ticket1['Short description'],
\*                            ticket2['Short description'])
CalculateSimilarity ==
    /\ op = "none"
    /\ ret' = calculate_similarity(HAS_FUZZYWUZZY, data[1].Short_description,
                                   data[2].Short_description)
    /\ op' = "calculate_similarity"
    /\ UNCHANGED <<enable, others, HAS_FUZZYWUZZY, data, sort_outcome, max_hours,
                   similarity_threshold, events, results>>

ScorerNext == CalculateSimilarity

ScorerSpec == ScorerInit /\ [][ScorerNext]_vars

\* the two descriptions scored
scored(k) == data[k].Short_description

absent_or_empty(desc) == isna(desc) \/ strip(desc) = <<>>

\* C11: the scorer returns 0 whenever either description is absent or is
\* empty after trimming whitespace, whatever the other description is and
\* under both backends.
C11_ZeroWhenAbsentOrEmpty ==
    (/\ op = "calculate_similarity"
     /\ absent_or_empty(scored(1)) \/ absent_or_empty(scored(2)))
        => ret = 0

\* C12: the scorer is symmetric: score(a, b) = score(b, a) for all
\* descriptions a and b, under either backend.
C12_Symmetric ==
    op = "calculate_similarity"
        => ret = calculate_similarity(HAS_FUZZYWUZZY, scored(2), scored(1))

\* the contract's two candidate scores of the lowercased, trimmed descriptions
max_of_two_ratios(desc1, desc2) ==
    Bind(<<strip(lower(str(desc1))), strip(lower(str(desc2)))>>, LAMBDA d :
        similarity_fuzzywuzzy(d[1], d[2]))

\* C13: under either backend the score of two present descriptions is an
\* integer in 0..100 and equals the larger of the full-sequence ratio and the
\* partial ratio of the lowercased, trimmed descriptions.
C13_MaxOfTwoRatios ==
    (/\ op = "calculate_similarity"
     /\ ~isna(scored(1))
     /\ ~isna(scored(2)))
        => /\ ret \in 0 .. 100
           /\ ret = max_of_two_ratios(scored(1), scored(2))

-----------------------------------------------------------------------------
(* Progress notifications of analyze, read off the log of the run *)

\* the positions of the log that hold an event of kind ev for group k
log_positions(ev, k) ==
    {p \in DOMAIN events : events[p].ev = ev /\ events[p].current = k}

\* the origin groups of the frame
origin_groups == {data[i].Site : i \in DOMAIN data}

-----------------------------------------------------------------------------
(* DuplicateDetector.get_summary_stats, and a detector that is used for     *)
(* several runs: `results` is self.results, written by analyze_legacy only  *)
(* (line 80) and read by get_summary_stats (line 590).                      *)

\* lines 591-597
unique_sites_of(duplicates) == {duplicates[k].site : k \in DOMAIN duplicates}

\* mutant: only the first ticket of each pair is counted
unique_tickets_first_only(duplicates) ==
    {duplicates[k].ticket1_number : k \in DOMAIN duplicates}

unique_tickets_of(duplicates) ==
    {duplicates[k].ticket1_number : k \in DOMAIN duplicates}
        \cup {duplicates[k].ticket2_number : k \in DOMAIN duplicates}

\* line 603: the quotient sum / len, kept as numerator and denominator
avg_similarity(duplicates) ==
    IF duplicates # <<>>
    THEN [num |-> SumSeq([k \in DOMAIN duplicates |->
                             duplicates[k].similarity_score]),
          den |-> Len(duplicates)]
    ELSE 0

\* lines 599-604
window_stats(duplicates) ==
    [total_pairs |-> Len(duplicates),
     affected_sites |-> Cardinality(unique_sites_of(duplicates)),
     unique_tickets_involved |-> Cardinality(unique_tickets_of(duplicates)),
     avg_similarity |-> avg_similarity(duplicates)]

get_summary_stats(res) ==
    [time_window \in DOMAIN res |-> window_stats(res[time_window])]

\* frames of a session: one origin with two or three tickets, or two origins
\* with two tickets each; all tickets within the hour, or none
SessionSites == {<<"A", "A">>, <<"A", "A", "A">>, <<"A", "A", "B", "B">>}
SessionTimes(n) == {[k \in 1 .. n |-> k - 1],
                    [k \in 1 .. n |-> (TicksPerHour + 1) * (k - 1)]}
SessionFrames ==
    {<<>>} \cup
    {frame(Len(s), s, [k \in DOMAIN s |-> ((k - 1) % MaxNumber) + 1], d, c) :
        s \in SessionSites, d \in descriptions_of(MaxRecords + 1),
        c \in SessionTimes(MaxRecords + 1)}

SessionInit ==
    /\ data \in SessionFrames
    /\ sort_outcome \in sort_outcomes(data)
    /\ max_hours = 1
    /\ similarity_threshold = 50
    /\ HAS_FUZZYWUZZY \in BOOLEAN
    /\ enable = {}
    /\ OthersIdle
    /\ op = "none"
    /\ events = <<>>
    /\ results = <<>>
    /\ ret = <<>>

\* a further call of analyze on the detector, with the caller's arguments
RunAnalyze ==
    /\ \E hours \in WindowHours, threshold \in Thresholds :
          /\ max_hours' = hours
          /\ similarity_threshold' = threshold
          /\ LET run == analyze(data, sort_outcome, hours, threshold,
                                HAS_FUZZYWUZZY)
             IN  /\ ret' = run.ret
                 /\ events' = run.events
    /\ op' = "analyze"
    /\ UNCHANGED <<enable, others, HAS_FUZZYWUZZY, data, sort_outcome, results>>

\* a further call of analyze_legacy on the detector
RunAnalyzeLegacy ==
    /\ \E time_windows \in WindowLists, threshold \in Thresholds :
          /\ similarity_threshold' = threshold
          /\ LET run == analyze_legacy(data, sort_outcome, time_windows,
                                       threshold, HAS_FUZZYWUZZY)
             IN  /\ results' = run.ret
                 /\ ret' = run.ret
                 /\ events' = run.events
    /\ op' = "analyze_legacy"
    /\ UNCHANGED <<enable, others, HAS_FUZZYWUZZY, data, sort_outcome, max_hours>>

\* DuplicateDetector.get_summary_stats()
GetSummaryStats ==
    /\ ret' = get_summary_stats(results)
    /\ op' = "get_summary_stats"
    /\ UNCHANGED <<enable, others, HAS_FUZZYWUZZY, data, sort_outcome, max_hours,
                   similarity_threshold, events, results>>

SessionNext == RunAnalyze \/ RunAnalyzeLegacy \/ GetSummaryStats

SessionSpec == SessionInit /\ [][SessionNext]_vars

\* the records named by the pairs of a list, at either position
records_involved(duplicates) ==
    {duplicates[k].row1 : k \in DOMAIN duplicates}
        \cup {duplicates[k].row2 : k \in DOMAIN duplicates}

\* C15: the statistics of a pair list are the number of its pairs, the number
\* of distinct sites, the number of distinct ticket numbers over both
\* positions of every pair, and the arithmetic mean of the scores; of an
\* empty list all counts are 0 and the average is 0.
C15_SummaryStatistics ==
    op = "get_summary_stats"
        => /\ DOMAIN ret = DOMAIN results
           /\ \A w \in DOMAIN results :
                 LET pairs == results[w]
                     involved == records_involved(pairs)
                 IN  /\ ret[w].total_pairs = Len(pairs)
                     /\ ret[w].affected_sites =
                            Cardinality({data[i].Site : i \in involved})
                     /\ ret[w].unique_tickets_involved =
                            Cardinality({data[i].Number : i \in involved})
                     /\ pairs # <<>> =>
                           /\ ret[w].avg_similarity.den = Len(pairs)
                           /\ ret[w].avg_similarity.num = SumSeq(
                                 [k \in DOMAIN pairs |->
                                     pairs[k].similarity_score])
                     /\ pairs = <<>> =>
                           ret[w] = [total_pairs |-> 0, affected_sites |-> 0,
                                     unique_tickets_involved |-> 0,
                                     avg_similarity |-> 0]

\* statistics of a run that left one window empty and found, in the other,
\* pairs that share tickets and pairs on two sites
C15_Witness ==
    /\ op = "get_summary_stats"
    /\ \E w \in DOMAIN ret : ret[w].total_pairs = 0
    /\ \E w \in DOMAIN ret :
          /\ ret[w].total_pairs >= 2
          /\ ret[w].unique_tickets_involved < 2 * ret[w].total_pairs
          /\ ret[w].affected_sites = 2

\* C16: whatever runs came before, get_summary_stats called after a run
\* describes exactly the pairs that run returned: after analyze the pairs of
\* its window max_hours, after analyze_legacy the pairs of every window, and
\* never those of an earlier run or an empty placeholder.
C16_StatsOfMostRecentRun ==
    [][/\ (op = "analyze" /\ op' = "get_summary_stats")
            => /\ DOMAIN ret' = {max_hours}
               /\ ret'[max_hours] = window_stats(ret)
       /\ (op = "analyze_legacy" /\ op' = "get_summary_stats")
            => ret' = [w \in DOMAIN ret |-> window_stats(ret[w])]]_vars

-----------------------------------------------------------------------------
(* The group detectors of analyze_enhanced.  A frame may carry the optional *)
(* columns Category and Subcategory: a row then has these fields, with NaN  *)
(* for an empty cell (csv_parser.py:37, pd.read_csv).  No frame of the      *)
(* model has a Priority column.                                             *)

TicksPerDay == 24 * TicksPerHour

\* whether the frame has the column
has_column(fr, name) == fr # <<>> /\ name \in DOMAIN fr[1]

\* data[name] = values
with_column(fr, name, values) ==
    [k \in DOMAIN fr |->
        [c \in DOMAIN fr[k] \cup {name} |->
            IF c = name THEN values[k] ELSE fr[k][c]]]

\* Series.dt.date: the calendar day, NaT for an absent timestamp
dt_date(created_dt) ==
    IF isnat(created_dt) THEN NaT ELSE created_dt \div TicksPerDay

\* lines 167 and 327: data['Created_date'] = data['Created_dt'].dt.date
with_created_date(fr) ==
    with_column(fr, "Created_date",
                [k \in DOMAIN fr |-> dt_date(fr[k].Created_dt)])

\* the members of a set of integers in ascending order
sorted_seq(S) ==
    CHOOSE f \in [1 .. Cardinality(S) -> S] :
        \A i, j \in 1 .. Cardinality(S) : i < j => f[i] < f[j]

RECURSIVE concat_all(_)
concat_all(seqs) ==
    IF seqs = <<>> THEN <<>>
    ELSE Bind(Tail(seqs), LAMBDA rest : Head(seqs) \o concat_all(rest))

\* Timestamp.strftime('%H:%M:%S'): the time of day, the date is dropped
strftime_time(created_dt) ==
    format_time_difference(created_dt % TicksPerDay)

\* Series.value_counts(): the occurrences of each value present, absent
\* cells not counted; pd.Series() when the frame has no such column
value_counts(tickets, name) ==
    IF ~has_column(tickets, name) THEN {}
    ELSE {<<v, Cardinality({k \in DOMAIN tickets : tickets[k][name] = v})>> :
             v \in {tickets[k][name] : k \in DOMAIN tickets} \ {NaN}}

\* Series.min() and Series.max() of Created_dt, NaT left out
created_min(tickets) ==
    CHOOSE t \in {tickets[k].Created_dt : k \in DOMAIN tickets} \ {NaT} :
        \A k \in DOMAIN tickets :
            isnat(tickets[k].Created_dt) \/ t <= tickets[k].Created_dt
created_max(tickets) ==
    CHOOSE t \in {tickets[k].Created_dt : k \in DOMAIN tickets} \ {NaT} :
        \A k \in DOMAIN tickets :
            isnat(tickets[k].Created_dt) \/ t >= tickets[k].Created_dt

\* mutant: a single ticket on a day is reported as a group
multiple_day_tickets_single(day_tickets) == Len(day_tickets) >= 1

\* line 174
multiple_day_tickets(day_tickets) == Len(day_tickets) > 1

\* lines 175-194; rows names the members by their labels
same_day_result(site_name, date, tickets) ==
    [site |-> site_name,
     date |-> date,
     ticket_count |-> Len(tickets),
     ticket_numbers |-> [k \in DOMAIN tickets |-> tickets[k].Number],
     category_mix |-> value_counts(tickets, "Category"),
     priority_mix |-> value_counts(tickets, "Priority"),
     time_span |-> format_time_difference(created_max(tickets)
                                          - created_min(tickets)),
     earliest_time |-> strftime_time(created_min(tickets)),
     latest_time |-> strftime_time(created_max(tickets)),
     rows |-> [k \in DOMAIN tickets |-> tickets[k].index]]

\* lines 170-195: the date groups of one site, NaT dates dropped
same_day_site(site_data, outcome, site_name) ==
    LET dates == sorted_seq({site_data[k].Created_date :
                                k \in DOMAIN site_data} \ {NaT})
        day_tickets(date) ==
            LET on_day(r) == r.Created_date = date
            IN  SelectSeq(site_data, on_day)
        reported(date) == multiple_day_tickets(day_tickets(date))
        found == SelectSeq(dates, reported)
    IN  [k \in DOMAIN found |->
            same_day_result(site_name, found[k],
                sort_values(day_tickets(found[k]), outcome[site_name]))]

\* the whole call: what it returns, what it made of the caller's frame, and
\* the callback of line 162.  The groups are built in (site, date) order,
\* which the sort of line 198 keeps.
analyze_same_day_duplicates(fr, outcome) ==
    Bind(with_created_date(fr), LAMBDA dated :
    Bind(groupby_keys(dated), LAMBDA keys :
        [ret |-> concat_all([i \in DOMAIN keys |->
                    same_day_site(group_rows(dated, keys[i]), outcome,
                                  keys[i])]),
         data |-> dated,
         events |-> <<[ev |-> "progress", current |-> 1, total |-> 4,
                       site |-> ""]>>]))

-----------------------------------------------------------------------------
(* DuplicateDetector._analyze_exact_matches *)

\* tuples of integers in lexicographic order, a proper prefix first
lex_less(a, b) ==
    \/ \E i \in DOMAIN a \cap DOMAIN b :
          /\ a[i] < b[i]
          /\ \A j \in 1 .. i - 1 : a[j] = b[j]
    \/ /\ Len(a) < Len(b)
       /\ \A j \in DOMAIN a : a[j] = b[j]

\* the members of a set in ascending order of less
sorted_by(S, less(_, _)) ==
    CHOOSE f \in [1 .. Cardinality(S) -> S] :
        \A i, j \in 1 .. Cardinality(S) : i < j => less(f[i], f[j])

\* sorted(l, key=..., reverse=True) with greater comparing the keys: elements
\* with equal keys keep their order
sorted_reverse(l, greater(_, _)) ==
    LET p == CHOOSE q \in [DOMAIN l -> DOMAIN l] :
                \A i, j \in DOMAIN l :
                    i < j => \/ greater(l[q[i]], l[q[j]])
                             \/ /\ ~greater(l[q[j]], l[q[i]])
                                /\ q[i] < q[j]
    IN  [k \in DOMAIN l |-> l[p[k]]]

\* the code points of the model's characters
char_rank(c) ==
    CASE c = " " -> 32 [] c = "A" -> 65 [] c = "B" -> 66
      [] c = "a" -> 97 [] c = "b" -> 98 [] c = "h" -> 104
      [] c = "s" -> 115 [] c = "x" -> 120

\* str < str
str_less(s1, s2) ==
    lex_less([k \in DOMAIN s1 |-> char_rank(s1[k])],
             [k \in DOMAIN s2 |-> char_rank(s2[k])])

\* Series.unique(): the values in order of first appearance, NaN included
unique(values) ==
    LET first(k) == \A j \in 1 .. k - 1 : values[j] # values[k]
        kept == sorted_seq({k \in DOMAIN values : first(k)})
    IN  [i \in DOMAIN kept |-> values[kept[i]]]

\* Timestamp.strftime('%Y-%m-%d %H:%M'): day, hour and minute
strftime_minute(created_dt) ==
    <<created_dt \div TicksPerDay,
      (created_dt % TicksPerDay) \div TicksPerHour,
      (created_dt % TicksPerHour) * MinutesPerTick>>

\* line 304: descriptions of more than 100 characters are cut
MaxDescription == 100
truncated(description) ==
    IF Len(description) > MaxDescription
    THEN SubSeq(description, 1, MaxDescription) \o <<".", ".", ".">>
    ELSE description

\* lines 289-290: NaT.strftime raises ValueError when no ticket of the group
\* has a timestamp
date_range_raises(tickets) ==
    \A k \in DOMAIN tickets : isnat(tickets[k].Created_dt)

\* lines 294-296: ', '.join(categories) raises TypeError on an absent
\* category (NaN is a float) when there are at most 3 distinct categories
category_info_raises(tickets) ==
    /\ has_column(tickets, "Category")
    /\ LET categories == unique([k \in DOMAIN tickets |-> tickets[k].Category])
       IN  /\ Len(categories) <= 3
           /\ \E k \in DOMAIN categories : isna(categories[k])

\* the exception the group's report raises, "" if none
exact_raised(tickets) ==
    IF date_range_raises(tickets) THEN "ValueError"
    ELSE IF category_info_raises(tickets) THEN "TypeError"
    ELSE ""

\* lines 289-291
date_range(tickets) ==
    LET earliest_date == strftime_minute(created_min(tickets))
        latest_date == strftime_minute(created_max(tickets))
    IN  IF earliest_date # latest_date THEN <<earliest_date, latest_date>>
        ELSE <<earliest_date>>

\* the text 'N/A'
NA == <<"N", "/", "A">>

\* lines 294-298
category_info(tickets) ==
    IF has_column(tickets, "Category")
    THEN LET categories == unique([k \in DOMAIN tickets |->
                                      tickets[k].Category])
         IN  IF Len(categories) <= 3 THEN categories
             ELSE <<categories[1], Len(categories) - 1>>
    ELSE NA

\* line 285
reported_description(description, desc_tickets) ==
    /\ Len(desc_tickets) > 1
    /\ ~isna(description)
    /\ strip(str(description)) # <<>>

\* lines 300-307; rows names the members by their labels
exact_result(site_name, description, tickets) ==
    [site |-> site_name,
     description |-> truncated(str(description)),
     ticket_count |-> Len(tickets),
     ticket_numbers |-> [k \in DOMAIN tickets |-> tickets[k].Number],
     date_range |-> date_range(tickets),
     category |-> category_info(tickets),
     rows |-> [k \in DOMAIN tickets |-> tickets[k].index]]

\* lines 282-286: the description groups of one site that are reported, in
\* the order of their keys; absent descriptions form no group
exact_site(site_data, outcome, site_name) ==
    LET descriptions ==
            sorted_by({site_data[k].Short_description :
                          k \in DOMAIN site_data} \ {NaN}, str_less)
        desc_tickets(description) ==
            LET same(r) == r.Short_description = description
            IN  SelectSeq(site_data, same)
        reported(description) ==
            reported_description(description, desc_tickets(description))
        found == SelectSeq(descriptions, reported)
    IN  [k \in DOMAIN found |->
            [site |-> site_name, description |-> found[k],
             tickets |-> sort_values(desc_tickets(found[k]),
                                     outcome[site_name])]]

more_tickets(x, y) == x.ticket_count > y.ticket_count

\* the whole call: the first group whose report raises ends it; otherwise
\* the groups are returned, the largest first (line 310)
analyze_exact_matches(fr, outcome) ==
    Bind(groupby_keys(fr), LAMBDA keys :
    Bind(concat_all([i \in DOMAIN keys |->
            exact_site(group_rows(fr, keys[i]), outcome, keys[i])]),
         LAMBDA groups :
    Bind({k \in DOMAIN groups : exact_raised(groups[k].tickets) # ""},
         LAMBDA failing :
        [ret |-> IF failing # {} THEN <<>>
                 ELSE sorted_reverse(
                          [k \in DOMAIN groups |->
                              exact_result(groups[k].site,
                                           groups[k].description,
                                           groups[k].tickets)],
                          more_tickets),
         raised |-> IF failing = {} THEN ""
                    ELSE exact_raised(groups[sorted_seq(failing)[1]].tickets),
         events |-> <<[ev |-> "progress", current |-> 3, total |-> 4,
                       site |-> ""]>>])))

-----------------------------------------------------------------------------
(* DuplicateDetector._analyze_category_patterns *)

\* lines 333-337
group_cols(site_data) ==
    LET available(c) == has_column(site_data, c)
    IN  <<"Created_date">> \o SelectSeq(<<"Category", "Subcategory">>, available)

\* the key of a row under groupby(cols): its date, then its other key cells
group_key(r, cols) == [i \in DOMAIN cols |-> r[cols[i]]]

\* mutant: groupby keeps the rows with an absent cell in a key column
key_has_null_never(key) == FALSE

\* groupby drops the rows with an absent cell in any key column
key_has_null(key) ==
    isnat(key[1]) \/ \E i \in 2 .. Len(key) : isna(key[i])

\* the order in which groupby yields its keys
key_less(a, b) ==
    \/ a[1] < b[1]
    \/ /\ a[1] = b[1]
       /\ \/ str_less(a[2], b[2])
          \/ /\ a[2] = b[2]
             /\ Len(a) = 3
             /\ str_less(a[3], b[3])

\* line 352
multiple_pattern_tickets(pattern_tickets) == Len(pattern_tickets) > 1

\* lines 344-371; with two key columns the second key cell is taken for the
\* category, whichever column it came from (line 347)
pattern_result(site_name, key, tickets) ==
    [site |-> site_name,
     date |-> key[1],
     category |-> IF isna(key[2]) THEN NA ELSE str(key[2]),
     subcategory |-> IF Len(key) = 3 /\ ~isna(key[3]) THEN str(key[3]) ELSE NA,
     ticket_count |-> Len(tickets),
     ticket_numbers |-> [k \in DOMAIN tickets |-> tickets[k].Number],
     priority_distribution |->
         IF has_column(tickets, "Priority")
         THEN value_counts(tickets, "Priority") ELSE NA,
     rows |-> [k \in DOMAIN tickets |-> tickets[k].index]]

\* lines 331-371 for one site
category_site(site_data, outcome, site_name) ==
    LET cols == group_cols(site_data)
        keys == sorted_by({key \in {group_key(site_data[k], cols) :
                                       k \in DOMAIN site_data} :
                              ~key_has_null(key)}, key_less)
        pattern_tickets(key) ==
            LET same(r) == group_key(r, cols) = key
            IN  SelectSeq(site_data, same)
        reported(key) == multiple_pattern_tickets(pattern_tickets(key))
        found == SelectSeq(keys, reported)
    IN  IF Len(cols) = 1 THEN <<>>
        ELSE [k \in DOMAIN found |->
                 pattern_result(site_name, found[k],
                     sort_values(pattern_tickets(found[k]),
                                 outcome[site_name]))]

\* line 373: the key (site, date, ticket_count), larger first
pattern_after(x, y) ==
    lex_less(<<site_rank(y.site), y.date, y.ticket_count>>,
             <<site_rank(x.site), x.date, x.ticket_count>>)

\* the whole call: what it returns, what it made of the caller's frame, and
\* the callback of line 323
analyze_category_patterns(fr, outcome) ==
    Bind(with_created_date(fr), LAMBDA dated :
    Bind(groupby_keys(dated), LAMBDA keys :
        [ret |-> sorted_reverse(
                    concat_all([i \in DOMAIN keys |->
                        category_site(group_rows(dated, keys[i]), outcome,
                                      keys[i])]),
                    pattern_after),
         data |-> dated,
         events |-> <<[ev |-> "progress", current |-> 4, total |-> 4,
                       site |-> ""]>>]))

-----------------------------------------------------------------------------
(* The inputs of the group detectors *)

\* sites of n tickets, the first of site "A" (the names can be swapped)
sites_of(n) == {s \in [1 .. n -> Sites] : s[1] = "A"}

\* midnight, the last tick of that day, the next midnight, or absent
DayTimes == {0, TicksPerDay - 1, TicksPerDay, NaT}

\* frames for the same-day detector: at most MaxRecords tickets, or four
\* tickets of one or two sites at midnight of two days
DayFrames ==
    UNION {{frame(n, s, [k \in 1 .. n |-> k], d, c) :
              s \in sites_of(n), d \in descriptions_of(n),
              c \in [1 .. n -> DayTimes]} :
           n \in 1 .. MaxRecords}
    \cup {frame(4, s, [k \in 1 .. 4 |-> k], <<ab, ba, ab, ba>>, c) :
             s \in {<<"A", "A", "A", "A">>, <<"A", "A", "B", "B">>},
             c \in [1 .. 4 -> {0, TicksPerDay, NaT}]}

\* descriptions for the exact-match detector: two texts, a blank one, absent
blank == <<" ">>
ExactDescriptions == {ab, ba, blank, NaN}

\* the k-th ticket was created at tick k - 1, or has no timestamp
exact_times(n) == {c \in [1 .. n -> 0 .. n - 1 \cup {NaT}] :
                      \A k \in 1 .. n : c[k] \in {k - 1, NaT}}

\* category cells: two categories, one subcategory, or empty
CategoryValues == {<<"h">>, <<"s">>, NaN}
SubcategoryValues == {<<"x">>, NaN}

\* frames for the exact-match detector; those of two tickets also with a
\* Category column, and three tickets of one text with every category mix
ExactBase ==
    UNION {{frame(n, s, [k \in 1 .. n |-> k], d, c) :
              s \in sites_of(n), d \in [1 .. n -> ExactDescriptions],
              c \in exact_times(n)} :
           n \in 2 .. MaxRecords}
ExactFrames ==
    ExactBase
    \cup {with_column(fr, "Category", cat) :
             fr \in {g \in ExactBase : Len(g) = 2},
             cat \in [1 .. 2 -> CategoryValues \ {<<"s">>}]}
    \cup {with_column(frame(3, <<"A", "A", "A">>, <<1, 2, 3>>, <<ab, ab, ab>>,
                            <<0, 1, 2>>), "Category", cat) :
             cat \in [1 .. 3 -> CategoryValues]}
    \cup {frame(4, s, [k \in 1 .. 4 |-> k], d, [k \in 1 .. 4 |-> k - 1]) :
             s \in {<<"A", "A", "A", "A">>, <<"A", "A", "B", "B">>},
             d \in [1 .. 4 -> ExactDescriptions \ {NaN}]}
    \cup {frame(5, [k \in 1 .. 5 |-> "A"], [k \in 1 .. 5 |-> k], d,
                [k \in 1 .. 5 |-> k - 1]) : d \in descriptions_of(5)}

\* the k-th ticket was created at tick k - 1 of the first or the second day
pattern_times(n) == {c \in [1 .. n -> 0 .. TicksPerDay + n - 1] :
                        \A k \in 1 .. n : c[k] \in {k - 1, TicksPerDay + k - 1}}

\* the frame with the category columns named, filled with cat and sub
with_categories(fr, columns, cat, sub) ==
    LET with_cat == IF "Category" \in columns
                    THEN with_column(fr, "Category", cat) ELSE fr
    IN  IF "Subcategory" \in columns
        THEN with_column(with_cat, "Subcategory", sub) ELSE with_cat

CategoryColumns ==
    {{"Category"}, {"Subcategory"}, {"Category", "Subcategory"}}

\* frames for the category-pattern detector: two or three tickets with any
\* cells in the category columns present, one of them possibly without a
\* timestamp; or four tickets of two sites with a category each
PatternBase ==
    UNION {{frame(n, s, [k \in 1 .. n |-> k], [k \in 1 .. n |-> ab], c) :
              s \in {t \in sites_of(n) : n = 3 => t[2] = "A"},
              c \in pattern_times(n)
                    \cup {[t EXCEPT ![n] = NaT] : t \in pattern_times(n)}} :
           n \in 2 .. MaxRecords}
PatternFrames ==
    {with_categories(fr, columns, cat, sub) :
        fr \in PatternBase, columns \in CategoryColumns,
        cat \in [1 .. MaxRecords -> CategoryValues],
        sub \in [1 .. MaxRecords -> SubcategoryValues]}
    \cup {with_categories(
              frame(4, <<"A", "A", "B", "B">>, <<1, 2, 3, 4>>,
                    <<ab, ab, ab, ab>>, <<0, 1, 2, 3>>),
              columns, cat, [k \in 1 .. 4 |-> <<"x">>]) :
             columns \in CategoryColumns,
             cat \in [1 .. 4 -> CategoryValues \ {NaN}]}

-----------------------------------------------------------------------------
(* The group detectors as analyze_enhanced calls them (lines 137-147), each *)
(* on a frame that is not empty (line 134).                                 *)

GroupInit ==
    /\ data \in DayFrames \cup ExactFrames \cup PatternFrames
    /\ sort_outcome \in sort_outcomes(data)
    /\ max_hours = 1
    /\ similarity_threshold = 50
    /\ HAS_FUZZYWUZZY \in BOOLEAN
    /\ enable = {}
    /\ OthersIdle
    /\ op = "none"
    /\ events = <<>>
    /\ results = <<>>
    /\ ret = <<>>

\* DuplicateDetector._analyze_same_day_duplicates(data)
AnalyzeSameDay ==
    /\ op = "none"
    /\ data # <<>>
    /\ LET run == analyze_same_day_duplicates(data, sort_outcome)
       IN  /\ ret' = run.ret
           /\ data' = run.data
           /\ events' = run.events
    /\ op' = "same_day"
    /\ UNCHANGED <<enable, others, HAS_FUZZYWUZZY, sort_outcome, max_hours,
                   similarity_threshold, results>>

\* DuplicateDetector._analyze_exact_matches(data); an exception it raises is
\* the last event of the call, and nothing is returned
AnalyzeExactMatches ==
    /\ op = "none"
    /\ data # <<>>
    /\ LET run == analyze_exact_matches(data, sort_outcome)
       IN  /\ ret' = run.ret
           /\ events' = IF run.raised = "" THEN run.events
                        ELSE Append(run.events,
                                    [ev |-> run.raised, current |-> 3,
                                     total |-> 4, site |-> ""])
    /\ op' = "exact_matches"
    /\ UNCHANGED <<enable, others, HAS_FUZZYWUZZY, data, sort_outcome, max_hours,
                   similarity_threshold, results>>

\* DuplicateDetector._analyze_category_patterns(data)
AnalyzeCategoryPatterns ==
    /\ op = "none"
    /\ data # <<>>
    /\ LET run == analyze_category_patterns(data, sort_outcome)
       IN  /\ ret' = run.ret
           /\ data' = run.data
           /\ events' = run.events
    /\ op' = "category_patterns"
    /\ UNCHANGED <<enable, others, HAS_FUZZYWUZZY, sort_outcome, max_hours,
                   similarity_threshold, results>>

GroupNext == AnalyzeSameDay \/ AnalyzeExactMatches \/ AnalyzeCategoryPatterns

GroupSpec == GroupInit /\ [][GroupNext]_vars

\* the call raised
raised == \E p \in DOMAIN events : events[p].ev \in {"ValueError", "TypeError"}

\* the labels of the records of a reported group
members(group) == Range(group.rows)

\* the labels of the records that have a timestamp
with_timestamp == {i \in DOMAIN data : data[i].Created_dt # NaT}

\* the day of a record with a timestamp
day_of(i) == data[i].Created_dt \div TicksPerDay

\* C17: the same-day detector reports exactly the (origin, calendar date)
\* classes that hold more than one record with a timestamp, whatever the
\* descriptions; ticket_count is the number of members, no record is in two
\* groups, and time_span is the latest minus the earliest member time.
C17_SameDayGroups ==
    op = "same_day"
        => LET class(s, d) == {i \in with_timestamp :
                                  data[i].Site = s /\ day_of(i) = d}
               days == {day_of(i) : i \in with_timestamp}
           IN  /\ \A s \in Sites, d \in days :
                     Cardinality(class(s, d)) > 1
                         => \E k \in DOMAIN ret :
                               ret[k].site = s /\ ret[k].date = d
               /\ \A k \in DOMAIN ret :
                     LET c == class(ret[k].site, ret[k].date)
                         times == {data[i].Created_dt : i \in c}
                         span == ret[k].time_span
                     IN  /\ Cardinality(c) > 1
                         /\ members(ret[k]) = c
                         /\ ret[k].ticket_count = Cardinality(c)
                         /\ Len(ret[k].rows) = Cardinality(c)
                         /\ \E lo, hi \in times :
                               /\ \A t \in times : lo <= t /\ t <= hi
                               /\ span[1] * 3600 + span[2] * 60 + span[3]
                                    = (hi - lo) * MinutesPerTick * 60
               /\ \A k, l \in DOMAIN ret :
                     k # l => members(ret[k]) \cap members(ret[l]) = {}

\* three records of one origin on one day, not all with one description,
\* were reported as one group spanning 23:45:00
C17_Witness ==
    /\ op = "same_day"
    /\ Len(data) = 3
    /\ \E k \in DOMAIN ret :
          /\ ret[k].ticket_count = 3
          /\ ret[k].time_span = <<23, 45, 0>>
          /\ \E i, j \in members(ret[k]) :
                data[i].Short_description # data[j].Short_description

-----------------------------------------------------------------------------
(* The rapid-fire detector on tickets a quarter of an hour to an hour and   *)
(* a quarter apart                                                          *)

RapidTimes == (0 .. TicksPerHour + 1) \cup {NaT}

RapidFrames ==
    UNION {{frame(n, s, [k \in 1 .. n |-> k], d, c) :
              s \in sites_of(n), d \in descriptions_of(n),
              c \in [1 .. n -> RapidTimes]} :
           n \in 1 .. MaxRecords}

RapidInit ==
    /\ data \in RapidFrames
    /\ sort_outcome \in sort_outcomes(data)
    /\ max_hours = 1
    /\ similarity_threshold \in Thresholds
    /\ HAS_FUZZYWUZZY \in BOOLEAN
    /\ enable = {}
    /\ OthersIdle
    /\ op = "none"
    /\ events = <<>>
    /\ results = <<>>
    /\ ret = <<>>

RapidNext == AnalyzeRapidFire \/ Analyze

RapidSpec == RapidInit /\ [][RapidNext]_vars

\* the pairs of records (earlier, later) of one origin, both with a
\* timestamp, at most w minutes apart, whose score reaches the threshold
rapid_pairs(w) ==
    {p \in (DOMAIN data) \X (DOMAIN data) :
        /\ data[p[1]].Site = data[p[2]].Site
        /\ p[1] \in with_timestamp
        /\ p[2] \in with_timestamp
        /\ position(data[p[1]].Site, p[1]) < position(data[p[1]].Site, p[2])
        /\ (data[p[2]].Created_dt - data[p[1]].Created_dt) * MinutesPerTick
              <= w
        /\ calculate_similarity(HAS_FUZZYWUZZY, data[p[1]].Short_description,
                                data[p[2]].Short_description)
              >= similarity_threshold}

\* the positions of the result that carry window w
tagged(w) == {k \in DOMAIN ret : ret[k].time_window_minutes = w}

\* C18: the results tagged with window w (15, 30 or 60 minutes) are exactly
\* the same-origin pairs i<j with timestamps, at most w minutes apart and
\* with a score of at least the threshold, each once per window; so a pair
\* within 15 minutes is reported three times, and the 60-minute bucket holds
\* the pairs of analyze with max_hours = 1.
C18_RapidFireWindows ==
    op = "rapid_fire"
        => /\ \A k \in DOMAIN ret :
                 ret[k].time_window_minutes \in Range(rapid_windows)
           /\ \A w \in Range(rapid_windows) :
                 /\ {<<ret[k].row1, ret[k].row2>> : k \in tagged(w)}
                       = rapid_pairs(w)
                 /\ Cardinality(tagged(w)) = Cardinality(rapid_pairs(w))
           /\ \A p \in rapid_pairs(15) :
                 Cardinality({k \in DOMAIN ret :
                                 <<ret[k].row1, ret[k].row2>> = p}) = 3
           /\ LET primary == analyze(data, sort_outcome, 1,
                                     similarity_threshold,
                                     HAS_FUZZYWUZZY).ret
              IN  {<<ret[k].row1, ret[k].row2>> : k \in tagged(60)}
                     = {<<primary[k].row1, primary[k].row2>> :
                           k \in DOMAIN primary}

\* three tickets 15 and 45 minutes after the first: one pair in all three
\* buckets, one in the buckets of 30 and 60 minutes, one in the last only
C18_Witness ==
    /\ op = "rapid_fire"
    /\ Cardinality(tagged(15)) = 1
    /\ Cardinality(tagged(30)) = 2
    /\ Cardinality(tagged(60)) = 3

\* the records of origin s whose description is the text d
described(s, d) ==
    {i \in DOMAIN data : data[i].Site = s /\ data[i].Short_description = d}

\* C19: the exact-match detector reports exactly the groups of records of one
\* origin and one description text that have more than one member and a
\* description that is neither absent nor blank; ticket_count is the number
\* of members, no record is in two groups, and no group mixes origins or
\* description texts.
C19_ExactMatchGroups ==
    op = "exact_matches"
        => /\ ~raised
           /\ \A s \in Sites, d \in ExactDescriptions :
                 (/\ Cardinality(described(s, d)) > 1
                  /\ ~absent_or_empty(d))
                     => \E k \in DOMAIN ret :
                           /\ ret[k].site = s
                           /\ members(ret[k]) = described(s, d)
           /\ \A k \in DOMAIN ret :
                 /\ \E d \in ExactDescriptions :
                       /\ ~absent_or_empty(d)
                       /\ members(ret[k]) = described(ret[k].site, d)
                 /\ ret[k].ticket_count = Cardinality(members(ret[k]))
                 /\ ret[k].ticket_count > 1
           /\ \A k, l \in DOMAIN ret :
                 k # l => members(ret[k]) \cap members(ret[l]) = {}

\* the category columns the frame has
category_columns ==
    {c \in {"Category", "Subcategory"} : has_column(data, c)}

\* record i has a timestamp and a value in every category column of the frame
has_category_data(i) ==
    /\ i \in with_timestamp
    /\ \A c \in category_columns : ~isna(data[i][c])

\* the records in the class of record i: same origin, calendar date, and
\* cells in the category columns
pattern_class(i) ==
    {j \in DOMAIN data :
        /\ has_category_data(j)
        /\ data[j].Site = data[i].Site
        /\ day_of(j) = day_of(i)
        /\ \A c \in category_columns : data[j][c] = data[i][c]}

-----------------------------------------------------------------------------
(* Effects of the detectors on the caller's frame *)

\* C21: running an auxiliary detector leaves the caller's record set as it
\* was: no record, field or column is added, removed or modified.
C21_DetectorsLeaveFrameUnchanged ==
    [][op' \in {"same_day", "exact_matches", "category_patterns"}
           => data' = data]_vars

-----------------------------------------------------------------------------
(* DuplicateDetector.analyze_enhanced.  flags is the set of the detectors   *)
(* enabled; a run is [ret, data, events, raised]: what was returned so far, *)
(* the caller's frame, the log, and the exception that ended it ("" if      *)
(* none).                                                                   *)

DetectorFlags == {"same_day", "rapid_fire", "exact_match", "category_patterns"}

\* enhanced_results[key] = result
with_result(run, key, result) ==
    [k \in DOMAIN run.ret \cup {key} |->
        IF k = key THEN result ELSE run.ret[k]]

\* lines 137-138
enhanced_same_day(run, outcome, flags) ==
    IF run.raised # "" \/ "same_day" \notin flags THEN run
    ELSE Bind(analyze_same_day_duplicates(run.data, outcome), LAMBDA pass :
            [ret |-> with_result(run, "same_day", pass.ret),
             data |-> pass.data,
             events |-> run.events \o pass.events,
             raised |-> ""])

\* lines 140-141
enhanced_rapid_fire(run, outcome, threshold, fuzzy, flags) ==
    IF run.raised # "" \/ "rapid_fire" \notin flags THEN run
    ELSE Bind(analyze_rapid_fire_duplicates(run.data, outcome, threshold,
                                            fuzzy), LAMBDA pass :
            [ret |-> with_result(run, "rapid_fire", pass.ret),
             data |-> run.data,
             events |-> run.events \o pass.events,
             raised |-> ""])

\* lines 143-144: an exception of the detector leaves analyze_enhanced
enhanced_exact_match(run, outcome, flags) ==
    IF run.raised # "" \/ "exact_match" \notin flags THEN run
    ELSE Bind(analyze_exact_matches(run.data, outcome), LAMBDA pass :
            [ret |-> IF pass.raised = ""
                     THEN with_result(run, "exact_match", pass.ret)
                     ELSE run.ret,
             data |-> run.data,
             events |-> run.events \o pass.events,
             raised |-> pass.raised])

\* lines 146-147
enhanced_category_patterns(run, outcome, flags) ==
    IF run.raised # "" \/ "category_patterns" \notin flags THEN run
    ELSE Bind(analyze_category_patterns(run.data, outcome), LAMBDA pass :
            [ret |-> with_result(run, "category_patterns", pass.ret),
             data |-> pass.data,
             events |-> run.events \o pass.events,
             raised |-> ""])

\* mutant: the detectors run on an empty frame too
returns_early_never(fr) == FALSE

\* lines 133-134
returns_early(fr) == fr = <<>>

\* lines 128-149
analyze_enhanced(fr, outcome, hours, threshold, fuzzy, flags) ==
    Bind(analyze(fr, outcome, hours, threshold, fuzzy), LAMBDA primary :
    Bind([ret |-> [k \in {"fuzzy_matching"} |-> primary.ret], data |-> fr,
          events |-> primary.events, raised |-> ""], LAMBDA run0 :
        IF returns_early(fr) THEN run0
        ELSE Bind(enhanced_same_day(run0, outcome, flags), LAMBDA run1 :
             Bind(enhanced_rapid_fire(run1, outcome, threshold, fuzzy, flags),
                  LAMBDA run2 :
             Bind(enhanced_exact_match(run2, outcome, flags), LAMBDA run3 :
                  enhanced_category_patterns(run3, outcome, flags))))))

\* descriptions and timestamps of well-formed and of malformed records
MalformedDescriptions == {ab, blank, NaN}

\* frames of at most MaxRecords records, any of them without timestamp or
\* with an absent or blank description; the empty frame among them
EnhancedFrames ==
    {<<>>} \cup
    UNION {{frame(n, s, [k \in 1 .. n |-> k], d, c) :
              s \in sites_of(n), d \in [1 .. n -> MalformedDescriptions],
              c \in exact_times(n)} :
           n \in 1 .. MaxRecords}

EnhancedInit ==
    /\ data \in EnhancedFrames
    /\ sort_outcome \in sort_outcomes(data)
    /\ max_hours = 1
    /\ similarity_threshold = 50
    /\ HAS_FUZZYWUZZY \in BOOLEAN
    /\ enable = {}
    /\ OthersIdle
    /\ op = "none"
    /\ events = <<>>
    /\ results = <<>>
    /\ ret = <<>>

\* DuplicateDetector.analyze_enhanced(data, max_hours, similarity_threshold,
\* enable_...); an exception is the last event of the call, and nothing is
\* returned
AnalyzeEnhanced ==
    /\ op = "none"
    /\ \E flags \in SUBSET DetectorFlags :
          /\ enable' = flags
          /\ LET run == analyze_enhanced(data, sort_outcome, max_hours,
                            similarity_threshold, HAS_FUZZYWUZZY, flags)
             IN  /\ ret' = IF run.raised = "" THEN run.ret ELSE <<>>
                 /\ data' = run.data
                 /\ events' = IF run.raised = "" THEN run.events
                              ELSE Append(run.events,
                                          [ev |-> run.raised, current |-> 3,
                                           total |-> 4, site |-> ""])
    /\ op' = "analyze_enhanced"
    /\ UNCHANGED <<others, HAS_FUZZYWUZZY, sort_outcome, max_hours,
                   similarity_threshold, results>>

EnhancedNext == AnalyzeEnhanced \/ Analyze

EnhancedSpec == EnhancedInit /\ [][EnhancedNext]_vars

\* C22: whichever records lack a timestamp or have an absent or blank
\* description, analyze and analyze_enhanced, with any combination of
\* detectors enabled, complete without an exception and return their results.
C22_NoRaiseOnMalformedRecord ==
    op \in {"analyze", "analyze_enhanced"}
        => /\ ~raised
           /\ op = "analyze_enhanced" => "fuzzy_matching" \in DOMAIN ret

-----------------------------------------------------------------------------
(* Grouping by origin *)

\* an empty Site cell of the file: read_csv gives NaN, which is no key of
\* groupby('Site') and so not in SiteOrder
NoSite == "nan"

\* frames in which any record may lack a site
OriginFrames ==
    UNION {{frame(n, s, [k \in 1 .. n |-> k], [k \in 1 .. n |-> ab], c) :
              s \in [1 .. n -> Sites \cup {NoSite}],
              c \in [1 .. n -> {0, 1}]} :
           n \in 1 .. MaxRecords}

OriginInit ==
    /\ data \in OriginFrames
    /\ sort_outcome \in sort_outcomes(data)
    /\ max_hours = 1
    /\ similarity_threshold = 50
    /\ HAS_FUZZYWUZZY \in BOOLEAN
    /\ enable = {}
    /\ OthersIdle
    /\ op = "none"
    /\ events = <<>>
    /\ results = <<>>
    /\ ret = <<>>

OriginNext == Analyze \/ AnalyzeLegacy

OriginSpec == OriginInit /\ [][OriginNext]_vars

\* the scans logged for a group that holds record i
scans_of(i) ==
    {p \in DOMAIN events :
        /\ events[p].ev = "scanned"
        /\ \E k \in DOMAIN group_rows(data, events[p].site) :
              group_rows(data, events[p].site)[k].index = data[i].index}

\* C23: every record handed to analyze is in exactly one origin group that is
\* scanned: none is in two groups, none is left out of all groups.
C23_GroupingExhaustiveAndDisjoint ==
    op = "analyze" => \A i \in DOMAIN data : Cardinality(scans_of(i)) = 1


-----------------------------------------------------------------------------
(* The empty record set *)

\* C24 as stated: on an empty record set analyze_enhanced returns an empty
\* result for fuzzy matching and for each detector whose flag is enabled.
C24_EmptyResultForEveryPass ==
    (data = <<>> /\ op = "analyze_enhanced")
        => /\ ~raised
           /\ DOMAIN ret = {"fuzzy_matching"} \cup enable
           /\ \A pass \in DOMAIN ret : ret[pass] = <<>>

\* C24, amended: on an empty record set analyze returns an empty pair list
\* without invoking the progress callback; analyze_enhanced raises no error,
\* invokes no callback and returns an empty pair list for fuzzy matching and
\* no entry for the auxiliary detectors, whichever flags are enabled.
C24_EmptyRecordSet ==
    data = <<>>
        => /\ op = "analyze" => ret = <<>> /\ events = <<>>
           /\ op = "analyze_enhanced"
                 => /\ events = <<>>
                    /\ DOMAIN ret = {"fuzzy_matching"}
                    /\ ret["fuzzy_matching"] = <<>>

\* analyze_enhanced has returned from an empty record set with every detector
\* requested
C24_Witness ==
    /\ data = <<>>
    /\ op = "analyze_enhanced"
    /\ enable = DetectorFlags
    /\ DOMAIN ret = {"fuzzy_matching"}


-----------------------------------------------------------------------------
(* SimpleDuplicateDetector (duplicate_detector_simple.py).  Its scan does   *)
(* not skip the records without a timestamp: a difference with NaT is NaT,  *)
(* which is not past any window, and the pair's time_difference_formatted   *)
(* takes int(NaT.total_seconds()), which raises ValueError.  A scan is      *)
(* [duplicates, raised].                                                    *)

\* lines 103-106: difflib only
simple_calculate_similarity(desc1, desc2) == calculate_similarity(FALSE, desc1, desc2)

\* lines 70-84
simple_pair(ticket1, ticket2, time_diff, similarity_score, time_window_hours) ==
    [site |-> ticket1.Site,
     ticket1_number |-> ticket1.Number,
     ticket1_description |-> ticket1.Short_description,
     ticket1_created_dt |-> ticket1.Created_dt,
     ticket2_number |-> ticket2.Number,
     ticket2_description |-> ticket2.Short_description,
     ticket2_created_dt |-> ticket2.Created_dt,
     time_difference |-> time_diff,
     time_difference_formatted |-> format_time_difference(time_diff),
     similarity_score |-> similarity_score,
     time_window_hours |-> time_window_hours,
     row1 |-> ticket1.index,
     row2 |-> ticket2.index]

\* lines 57-85: the inner loop from position j on
RECURSIVE simple_inner_scan(_, _, _, _, _, _)
simple_inner_scan(site_data, hours, threshold, i, j, scan) ==
    IF j > Len(site_data) \/ scan.raised # "" THEN scan
    ELSE LET ticket1 == site_data[i]
             ticket2 == site_data[j]
             absent == isnat(ticket1.Created_dt) \/ isnat(ticket2.Created_dt)
             time_diff == IF absent THEN NaT
                          ELSE ticket2.Created_dt - ticket1.Created_dt
             similarity_score ==
                 simple_calculate_similarity(ticket1.Short_description,
                                             ticket2.Short_description)
         IN  IF ~absent /\ past_window(time_diff, timedelta_hours(hours))
             THEN scan                                             \* break
             ELSE Bind(IF ~meets_threshold(similarity_score, threshold)
                       THEN scan
                       ELSE IF absent
                       THEN [scan EXCEPT !.raised = "ValueError"]
                       ELSE [scan EXCEPT !.duplicates =
                                Append(@, simple_pair(ticket1, ticket2,
                                              time_diff, similarity_score,
                                              hours))],
                       LAMBDA found :
                          simple_inner_scan(site_data, hours, threshold, i,
                                            j + 1, found))

\* lines 53-85: the outer loop from position i on
RECURSIVE simple_outer_scan(_, _, _, _, _)
simple_outer_scan(site_data, hours, threshold, i, scan) ==
    IF i > Len(site_data) \/ scan.raised # "" THEN scan
    ELSE Bind(simple_inner_scan(site_data, hours, threshold, i, i + 1, scan),
              LAMBDA found :
                 simple_outer_scan(site_data, hours, threshold, i + 1, found))

\* lines 47-87
simple_find_duplicates_in_site(site_data, time_window_hours, threshold) ==
    simple_outer_scan(site_data, time_window_hours, threshold, 1,
                      [duplicates |-> <<>>, raised |-> ""])

\* lines 35-39: the loop over time_windows for one site, from position w on;
\* acc is [res, events, raised]
RECURSIVE simple_windows(_, _, _, _, _)
simple_windows(site_data, time_windows, w, threshold, acc) ==
    IF w > Len(time_windows) \/ acc.raised # "" THEN acc
    ELSE Bind(simple_find_duplicates_in_site(site_data, time_windows[w],
                                             threshold), LAMBDA scan :
         Bind(IF scan.raised # "" THEN [acc EXCEPT !.raised = scan.raised]
              ELSE [acc EXCEPT !.res[time_windows[w]] = @ \o scan.duplicates],
              LAMBDA extended :
                 simple_windows(site_data, time_windows, w + 1, threshold,
                                extended)))

\* lines 26-39
RECURSIVE simple_loop(_, _, _, _, _, _, _)
simple_loop(fr, outcome, keys, site_idx, time_windows, threshold, acc) ==
    IF site_idx >= Len(keys) \/ acc.raised # "" THEN acc
    ELSE Bind(sorted_site_data(fr, outcome, keys[site_idx + 1]),
              LAMBDA site_data :
         Bind(simple_windows(site_data, time_windows, 1, threshold,
                  [acc EXCEPT !.events = @ \o site_events(keys, site_idx)]),
              LAMBDA extended :
                 simple_loop(fr, outcome, keys, site_idx + 1, time_windows,
                             threshold, extended)))

\* SimpleDuplicateDetector.analyze, lines 13-45: [ret, results, events,
\* raised]; self.results is the dictionary the loops extend
simple_analyze(fr, outcome, time_windows, threshold) ==
    LET empty == [w \in Range(time_windows) |-> <<>>]
    IN  IF fr = <<>>
        THEN [ret |-> empty, results |-> empty, events |-> <<>>, raised |-> ""]
        ELSE Bind(groupby_keys(fr), LAMBDA keys :
             Bind(simple_loop(fr, outcome, keys, 0, time_windows, threshold,
                      [res |-> empty, events |-> <<>>, raised |-> ""]),
                  LAMBDA run :
             Bind([w \in DOMAIN run.res |-> sort_by_score(run.res[w])],
                  LAMBDA sorted :
                     [ret |-> IF run.raised = "" THEN sorted ELSE <<>>,
                      results |-> IF run.raised = "" THEN sorted ELSE run.res,
                      events |-> run.events,
                      raised |-> run.raised])))

-----------------------------------------------------------------------------
(* The per-window analyses on lists of windows in any order, with repeats *)

\* the time_windows lists: empty, one window, ascending, descending, with a
\* window listed twice
LegacyWindowLists ==
    {<<>>, <<1>>, <<0, 1>>, <<1, 0>>, <<1, 1>>, <<0, 2, 1>>, <<2, 1, 2>>}

\* records of one or two sites, with or without a description, at the hour
\* boundaries or without a timestamp
LegacyFrames ==
    UNION {{frame(n, s, [k \in 1 .. n |-> k], d, c) :
              s \in sites_of(n),
              d \in {f \in [1 .. n -> {ab, NaN}] : f[1] = ab},
              c \in [1 .. n -> Times]} :
           n \in 1 .. MaxRecords}

LegacyInit ==
    /\ data \in LegacyFrames
    /\ sort_outcome \in sort_outcomes(data)
    /\ max_hours = 1
    /\ similarity_threshold = 50
    /\ HAS_FUZZYWUZZY \in BOOLEAN
    /\ enable = {}
    /\ OthersIdle
    /\ op = "none"
    /\ events = <<>>
    /\ results = <<>>
    /\ ret = <<>>

\* DuplicateDetector.analyze_legacy(data, time_windows, similarity_threshold);
\* enable keeps the list that was passed
AnalyzeLegacyWindows ==
    /\ op = "none"
    /\ \E time_windows \in LegacyWindowLists :
          /\ enable' = time_windows
          /\ LET run == analyze_legacy(data, sort_outcome, time_windows,
                                       similarity_threshold, HAS_FUZZYWUZZY)
             IN  /\ results' = run.ret
                 /\ ret' = run.ret
                 /\ events' = run.events
    /\ op' = "analyze_legacy"
    /\ UNCHANGED <<others, HAS_FUZZYWUZZY, data, sort_outcome, max_hours,
                   similarity_threshold>>

\* SimpleDuplicateDetector.analyze(data, time_windows, similarity_threshold)
SimpleAnalyze ==
    /\ op = "none"
    /\ \E time_windows \in LegacyWindowLists :
          /\ enable' = time_windows
          /\ LET run == simple_analyze(data, sort_outcome, time_windows,
                                       similarity_threshold)
             IN  /\ results' = run.results
                 /\ ret' = run.ret
                 /\ events' = IF run.raised = "" THEN run.events
                              ELSE Append(run.events,
                                          [ev |-> run.raised, current |-> 0,
                                           total |-> 0, site |-> ""])
    /\ op' = "simple_analyze"
    /\ UNCHANGED <<others, HAS_FUZZYWUZZY, data, sort_outcome, max_hours,
                   similarity_threshold>>

LegacyNext == AnalyzeLegacyWindows \/ SimpleAnalyze

LegacySpec == LegacyInit /\ [][LegacyNext]_vars

\* the scorer of the detector that ran
legacy_score(i, j) ==
    calculate_similarity(op = "analyze_legacy" /\ HAS_FUZZYWUZZY,
                         data[i].Short_description, data[j].Short_description)

\* the pairs of records of one site, both with a timestamp, whose score
\* reaches the threshold; i is the earlier record, or the one sorted first
\* of two with equal timestamps
legacy_qualifying ==
    {p \in (DOMAIN data) \X (DOMAIN data) :
        /\ p[1] # p[2]
        /\ data[p[1]].Site = data[p[2]].Site
        /\ ~isnat(data[p[1]].Created_dt) /\ ~isnat(data[p[2]].Created_dt)
        /\ data[p[1]].Created_dt <= data[p[2]].Created_dt
        /\ legacy_score(p[1], p[2]) >= similarity_threshold}

\* how often the pair of records p is in the list of window w, either way
\* round
occurrences(w, p) ==
    Cardinality({k \in DOMAIN results[w] :
                    {results[w][k].row1, results[w][k].row2} = {p[1], p[2]}})

\* the pair's time difference is within w hours
within(w, p) ==
    data[p[2]].Created_dt - data[p[1]].Created_dt <= w * TicksPerHour

\* the per-window analysis has returned its dictionary
legacy_returned == op \in {"analyze_legacy", "simple_analyze"} /\ ~raised

listed(w) == Cardinality({k \in DOMAIN enable : enable[k] = w})

\* the pairs of records in the list of window w
pairs_in(w) ==
    {{results[w][k].row1, results[w][k].row2} : k \in DOMAIN results[w]}

-----------------------------------------------------------------------------
(* The command-line run *)

\* C26: with a file that loads, a threshold within [50, 100] and at least one
\* record to analyse, the command-line run performs the analysis and exits
\* with status 0.
C26_CliRunExitsZero ==
    (op = "cli_main" /\ data # <<>> /\ valid_similarity(similarity_threshold))
        => ret = 0


-----------------------------------------------------------------------------
(* CSVRepairer (csv_repair.py) on a file system.                            *)
(*                                                                          *)
(* files maps each path that exists to the file's content.  A path is the   *)
(* sequence of its base name and its extensions.  A content is              *)
(*   [encoding, columns, rows]:                                             *)
(* columns is "required" when the header has the four required columns,     *)
(* "missing" when it lacks one, "none" for a file of zero bytes; a row is   *)
(* [Number, Short_description, Created]; Created is the tick the cell's    *)
(* text parses to under DATE_FORMAT, or NaT when the cell is empty.         *)

\* the variables of the detector, which the file operations leave alone
detector == <<HAS_FUZZYWUZZY, data, sort_outcome, max_hours, similarity_threshold, events, results>>

\* no detector has been constructed
DetectorIdle ==
    /\ HAS_FUZZYWUZZY = FALSE
    /\ data = <<>>
    /\ sort_outcome = <<>>
    /\ max_hours = 0
    /\ similarity_threshold = 0
    /\ events = <<>>
    /\ results = <<>>

\* the file named on the command line
InputPath == <<"tickets", ".csv">>

\* filepath + '.bak' (line 71)
backup_path(filepath) == Append(filepath, ".bak")

\* os.path.splitext and f"{base}_repaired{ext}" (lines 125-126)
repaired_path(filepath) == <<filepath[1] \o "_repaired", filepath[2]>>

\* f"{base}_temp_repaired{ext}" (lines 179-180)
temp_repaired_path(filepath) == <<filepath[1] \o "_temp_repaired", filepath[2]>>

\* open(path, 'w') and shutil.copy2: the file at path now holds content
written(fs, path, content) ==
    [q \in DOMAIN fs \cup {path} |-> IF q = path THEN content ELSE fs[q]]

\* shutil.move(src, dst)
moved(fs, src, dst) ==
    [q \in (DOMAIN fs \ {src}) \cup {dst} |-> IF q = dst THEN fs[src] ELSE fs[q]]

\* pd.read_csv(filepath, encoding=encoding): which encodings decode the file
\* (latin-1 decodes every byte sequence), and EmptyDataError on zero bytes
decodes(content, encoding) ==
    encoding \in {content.encoding, "iso-8859-1", "latin-1"}

\* line 76, after the encoding detected
encodings_to_try == <<"utf-8", "windows-1252", "iso-8859-1", "latin-1">>

\* lines 79-96: the frame read; none (df is None) when no encoding gives one
read_any_encoding(content) ==
    [none |-> \/ content.columns = "none"
              \/ ~\E k \in DOMAIN encodings_to_try :
                     decodes(content, encodings_to_try[k]),
     rows |-> content.rows]

\* a line of empty cells only (",,,"): every cell is read as NaN
BlankRow == [Number |-> 0, Short_description |-> NaN, Created |-> NaT]

\* df.dropna(how='all'), line 105
dropna_all(rows) ==
    LET kept(r) == r # BlankRow
    IN  SelectSeq(rows, kept)

\* df.drop_duplicates(), line 109: the first of equal rows stays
RECURSIVE drop_duplicates(_)
drop_duplicates(rows) ==
    IF rows = <<>> THEN <<>>
    ELSE Bind(drop_duplicates(SubSeq(rows, 1, Len(rows) - 1)), LAMBDA front :
            IF \E k \in 1 .. Len(rows) - 1 : rows[k] = rows[Len(rows)]
            THEN front
            ELSE Append(front, rows[Len(rows)]))

\* lines 115-119: the text columns stripped, after the duplicates were dropped
stripped(rows) ==
    [k \in DOMAIN rows |->
        [rows[k] EXCEPT !.Short_description = IF @ = NaN THEN @ ELSE strip(@)]]

\* line 70
makes_backup(create_backup, overwrite) == create_backup /\ ~overwrite

\* lines 122-126
output_path_of(filepath, overwrite) ==
    IF overwrite THEN filepath ELSE repaired_path(filepath)

\* CSVRepairer.repair_csv, lines 50-153: [files, success, output_path]
repair_csv(fs, filepath, create_backup, target_encoding, overwrite) ==
    Bind(IF makes_backup(create_backup, overwrite)
         THEN written(fs, backup_path(filepath), fs[filepath])
         ELSE fs, LAMBDA backed :
    Bind(read_any_encoding(fs[filepath]), LAMBDA df :
        IF df.none
        THEN [files |-> backed, success |-> FALSE, output_path |-> NaN]
        ELSE [files |-> written(backed, output_path_of(filepath, overwrite),
                           [encoding |-> target_encoding,
                            columns |-> fs[filepath].columns,
                            rows |-> stripped(drop_duplicates(dropna_all(df.rows)))]),
              success |-> TRUE,
              output_path |-> output_path_of(filepath, overwrite)]))

\* lines 165-169: read as utf-8, at least four columns and one row
already_readable(content) ==
    /\ content.columns # "none"
    /\ decodes(content, "utf-8")
    /\ content.rows # <<>>

\* CSVRepairer.quick_repair_if_needed, lines 155-199:
\* [files, was_repaired, repaired_file_path]
quick_repair_if_needed(fs, filepath, target_encoding) ==
    IF already_readable(fs[filepath])
    THEN [files |-> fs, was_repaired |-> FALSE,
          repaired_file_path |-> filepath]
    ELSE Bind(repair_csv(fs, filepath, FALSE, target_encoding, FALSE),
              LAMBDA run :
                 IF run.success
                 THEN [files |-> moved(run.files, run.output_path,
                                       temp_repaired_path(filepath)),
                       was_repaired |-> TRUE,
                       repaired_file_path |-> temp_repaired_path(filepath)]
                 ELSE [files |-> run.files, was_repaired |-> FALSE,
                       repaired_file_path |-> NaN])

\* the rows of the files of the model
padded == <<" ", "a", "b">>
FileRows ==
    {BlankRow} \cup [Number : 1 .. MaxNumber, Short_description : {ab, padded},
                Created : {0, NaT}]

MaxRows == 2

\* the contents a file may have
FileContents ==
    {[encoding |-> "utf-8", columns |-> "none", rows |-> <<>>]} \cup
    UNION {[encoding : {"utf-8", "windows-1252"},
            columns : {"required", "missing"},
            rows : [1 .. n -> FileRows]] : n \in 0 .. MaxRows}

\* what an earlier run may have left at the backup path
StaleBackup == [encoding |-> "utf-8", columns |-> "missing", rows |-> <<>>]

\* the input file exists (cli_main.py:232); a backup of an earlier run may
\* exist too
RepairInit ==
    /\ \E content \in FileContents :
          \/ files = written(<<>>, InputPath, content)
          \/ files = written(written(<<>>, InputPath, content),
                             backup_path(InputPath), StaleBackup)
    /\ parser = <<>>
    /\ app = <<>>
    /\ DetectorIdle
    /\ enable = {}
    /\ op = "none"
    /\ ret = <<>>

\* csv_repairer.repair_csv(filepath, create_backup, 'utf-8', overwrite), as
\* the --repair-only run calls it; enable keeps the options that were set
RepairCsv ==
    /\ op = "none"
    /\ \E create_backup, overwrite \in BOOLEAN :
          /\ enable' = {o \in {"create_backup", "overwrite"} :
                          \/ o = "create_backup" /\ create_backup
                          \/ o = "overwrite" /\ overwrite}
          /\ LET run == repair_csv(files, InputPath, create_backup, "utf-8",
                                   overwrite)
             IN  /\ files' = run.files
                 /\ ret' = [success |-> run.success,
                            output_path |-> run.output_path]
    /\ op' = "repair_csv"
    /\ UNCHANGED <<detector, parser, app>>

\* csv_repairer.quick_repair_if_needed(filepath)
QuickRepairIfNeeded ==
    /\ op = "none"
    /\ LET run == quick_repair_if_needed(files, InputPath, "utf-8")
       IN  /\ files' = run.files
           /\ ret' = [success |-> run.was_repaired,
                      output_path |-> run.repaired_file_path]
    /\ op' = "quick_repair_if_needed"
    /\ UNCHANGED <<detector, parser, app, enable>>

RepairNext == RepairCsv \/ QuickRepairIfNeeded

RepairSpec == RepairInit /\ [][RepairNext]_vars

\* C27: when a backup is requested, a successful repair_csv leaves at the
\* '.bak' path a copy of the content the input file had, also when the
\* repaired output replaces the input file; when overwrite is off the input
\* file is as it was.
C27_BackupHoldsOriginal ==
    [][(op' = "repair_csv" /\ ret'.success)
          => /\ "create_backup" \in enable'
                   => /\ backup_path(InputPath) \in DOMAIN files'
                      /\ files'[backup_path(InputPath)] = files[InputPath]
             /\ "overwrite" \notin enable'
                   => files'[InputPath] = files[InputPath]]_vars


-----------------------------------------------------------------------------
(* CSVParser (csv_parser.py).  parser is                                    *)
(*   [data, original_data, was_repaired, repaired_file_path, loads];        *)
(* a frame is [none, rows], none for Python's None; loads counts the calls  *)
(* of load_and_validate.                                                    *)

MaxLoads == 2

None == [none |-> TRUE, rows |-> <<>>]

\* the second file the user may open
OtherPath == <<"other", ".csv">>

\* CSVParser.__init__, lines 14-19
new_parser ==
    [data |-> None, original_data |-> None, was_repaired |-> FALSE,
     repaired_file_path |-> NaN, loads |-> 0]

\* pd.read_csv(path, encoding='utf-8'), lines 37 and 59: the frame, or the
\* exception raised
read_csv_utf8(fs, path) ==
    IF path \notin DOMAIN fs THEN [raised |-> "FileNotFoundError", frame |-> None]
    ELSE IF fs[path].columns = "none"
    THEN [raised |-> "EmptyDataError", frame |-> None]
    ELSE IF ~decodes(fs[path], "utf-8")
    THEN [raised |-> "UnicodeDecodeError", frame |-> None]
    ELSE [raised |-> "", frame |-> [none |-> FALSE, rows |-> fs[path].rows]]

\* _validate_required_columns, lines 84-97, on the file the frame was read from
validate_required_columns(fs, path) == fs[path].columns = "required"

\* _parse_created_column, lines 117-124: an empty Created cell becomes NaT
parse_created_column(df) ==
    \A k \in DOMAIN df.rows : ~isnat(df.rows[k].Created)

\* _finalize_loading, line 102: the working copy is stored before its dates
\* are parsed
finalized_data(p, df) == df

\* lines 37-42 and 59-65: read, validate, finalize.  [parser, outcome]:
\* outcome is "loaded", "invalid" (a required column is missing) or the
\* exception raised
attempt(p, fs, path) ==
    Bind(read_csv_utf8(fs, path), LAMBDA read :
        IF read.raised # "" THEN [parser |-> p, outcome |-> read.raised]
        ELSE Bind([p EXCEPT !.original_data = read.frame], LAMBDA p1 :
            IF ~validate_required_columns(fs, path)
            THEN [parser |-> p1, outcome |-> "invalid"]
            ELSE Bind([p1 EXCEPT !.data = finalized_data(p1, read.frame)],
                      LAMBDA p2 :
                         [parser |-> p2,
                          outcome |-> IF parse_created_column(read.frame)
                                      THEN "loaded" ELSE "ValueError"])))

\* lines 50-71: the second attempt, after quick_repair_if_needed
load_repaired(p, fs, path) ==
    Bind(quick_repair_if_needed(fs, path, "utf-8"), LAMBDA repair :
        IF ~repair.was_repaired
        THEN [parser |-> p, files |-> repair.files, success |-> FALSE]
        ELSE Bind([p EXCEPT !.was_repaired = TRUE,
                            !.repaired_file_path = repair.repaired_file_path],
                  LAMBDA p1 :
             Bind(attempt(p1, repair.files, repair.repaired_file_path),
                  LAMBDA second :
                     [parser |-> second.parser, files |-> repair.files,
                      success |-> second.outcome = "loaded"])))

\* CSVParser.load_and_validate, lines 21-82: [parser, files, success]
load_and_validate(p, fs, path, auto_repair) ==
    Bind(attempt(p, fs, path), LAMBDA first :
        CASE first.outcome = "loaded" ->
               [parser |-> first.parser, files |-> fs, success |-> TRUE]
          [] first.outcome \in {"FileNotFoundError", "EmptyDataError", "ValueError"} ->
               [parser |-> first.parser, files |-> fs, success |-> FALSE]
          [] first.outcome \in {"UnicodeDecodeError", "invalid"} ->
               IF auto_repair
               THEN load_repaired(first.parser, fs, path)
               ELSE [parser |-> first.parser, files |-> fs, success |-> FALSE])

\* get_filtered_data(False), lines 140-149, and get_total_tickets, 157-161
get_filtered_data(p) == IF p.data.none THEN <<>> ELSE p.data.rows
get_total_tickets(p) == IF p.data.none THEN 0 ELSE Len(p.data.rows)

\* cleanup_temp_files, lines 179-186
cleanup_temp_files(p, fs) ==
    IF p.repaired_file_path # NaN /\ p.repaired_file_path \in DOMAIN fs
    THEN [q \in DOMAIN fs \ {p.repaired_file_path} |-> fs[q]]
    ELSE fs

\* the contents of the files of this specification: at most one row
SmallContents == {c \in FileContents : Len(c.rows) <= 1}

ParserInit ==
    /\ \E c1, c2 \in SmallContents :
          files = written(written(<<>>, InputPath, c1), OtherPath, c2)
    /\ parser = new_parser
    /\ app = <<>>
    /\ DetectorIdle
    /\ enable = {}
    /\ op = "none"
    /\ ret = <<>>

\* csv_parser.load_and_validate(file_path, auto_repair)
LoadAndValidate ==
    /\ parser.loads < MaxLoads
    /\ \E path \in {InputPath, OtherPath}, auto_repair \in BOOLEAN :
          LET run == load_and_validate(parser, files, path, auto_repair)
          IN  /\ parser' = [run.parser EXCEPT !.loads = @ + 1]
              /\ files' = run.files
              /\ ret' = [success |-> run.success, path |-> path]
    /\ op' = "load_and_validate"
    /\ UNCHANGED <<detector, app, enable>>

\* csv_parser.cleanup_temp_files()
CleanupTempFiles ==
    /\ op = "load_and_validate"
    /\ files' = cleanup_temp_files(parser, files)
    /\ ret' = <<>>
    /\ op' = "cleanup_temp_files"
    /\ UNCHANGED <<detector, app, enable, parser>>

ParserNext == LoadAndValidate \/ CleanupTempFiles

ParserSpec == ParserInit /\ [][ParserNext]_vars

\* C30: a load that fails leaves what the parser exposes as it was: the
\* frame of get_filtered_data, the count of get_total_tickets and
\* was_repaired are those of before the call.
C30_FailedLoadLeavesParser ==
    [][(op' = "load_and_validate" /\ ~ret'.success)
          => /\ get_filtered_data(parser') = get_filtered_data(parser)
             /\ get_total_tickets(parser') = get_total_tickets(parser)
             /\ parser'.was_repaired = parser.was_repaired]_vars


-----------------------------------------------------------------------------
(* DuplicateTicketApp (main.py): the Tk main loop, the Run Analysis button  *)
(* and the analysis worker threads.  app is                                 *)
(*   [current_file_path, analyze_button, progress_bar, duplicate_detector,  *)
(*    analysis_results, threads, queue, ran, loads]:                        *)
(* current_file_path is TRUE when a file is loaded; analyze_button is       *)
(* [state, text]; progress_bar is TRUE when the bar is packed;              *)
(* duplicate_detector and analysis_results name the run that wrote them     *)
(* last (0: none); threads[r] is where the worker of run r stands; queue    *)
(* holds the callbacks passed to root.after(0, ...), oldest first; ran      *)
(* lists the callbacks the main loop has run.                               *)

MaxRuns == 2

\* update_ui_state, lines 777-785: the analyze button
update_ui_state(a) ==
    [a EXCEPT !.analyze_button.state =
        IF a.current_file_path THEN "normal" ELSE "disabled"]

\* set_analysis_running, lines 528-537
set_analysis_running(a, running) ==
    update_ui_state(
        IF running
        THEN [a EXCEPT !.analyze_button = [state |-> "disabled", text |-> "Analyzing..."],
                       !.progress_bar = TRUE]
        ELSE [a EXCEPT !.analyze_button = [state |-> "normal", text |-> "Run Analysis"],
                       !.progress_bar = FALSE])

\* the main loop runs one queued callback
run_callback(a, cb) ==
    Bind(CASE cb.fn = "set_analysis_running_true" -> set_analysis_running(a, TRUE)
           [] cb.fn = "set_analysis_running_false" -> set_analysis_running(a, FALSE)
           [] cb.fn = "display_results" -> update_ui_state(a)      \* line 598
           [] cb.fn \in {"showwarning", "showerror", "progress"} -> a,
         LAMBDA after : [after EXCEPT !.ran = Append(@, cb)])

\* root.update(), line 418: every pending callback is run
RECURSIVE root_update(_)
root_update(a) ==
    IF a.queue = <<>> THEN a
    ELSE Bind(run_callback([a EXCEPT !.queue = Tail(@)], Head(a.queue)),
              LAMBDA after : root_update(after))

\* root.after(0, fn) of run r
after(a, fn, r) == [a EXCEPT !.queue = Append(@, [fn |-> fn, run |-> r])]

\* DuplicateTicketApp.__init__, lines 18-39
new_app ==
    [current_file_path |-> FALSE,
     analyze_button |-> [state |-> "disabled", text |-> "Run Analysis"],
     progress_bar |-> FALSE,
     duplicate_detector |-> 0,
     analysis_results |-> 0,
     threads |-> <<>>,
     queue |-> <<>>,
     ran |-> <<>>,
     loads |-> 0]

GuiInit ==
    /\ app = new_app
    /\ files = <<>>
    /\ parser = <<>>
    /\ DetectorIdle
    /\ enable = {}
    /\ op = "none"
    /\ ret = <<>>

\* load_file, lines 405-456: the pending callbacks run in root.update(), the
\* file loads or not, the buttons are updated
LoadFile ==
    /\ app.loads < MaxLoads
    /\ \E success \in BOOLEAN :
          app' = update_ui_state(
                    [root_update(app) EXCEPT !.current_file_path = success,
                                             !.loads = @ + 1])
    /\ op' = "load_file"
    /\ UNCHANGED <<detector, files, parser, enable, ret>>

\* a click on Run Analysis: run_analysis_threaded, lines 458-460
RunAnalysisThreaded ==
    /\ app.analyze_button.state = "normal"
    /\ Len(app.threads) < MaxRuns
    /\ app' = [app EXCEPT !.threads = Append(@, "started")]
    /\ op' = "run_analysis_threaded"
    /\ UNCHANGED <<detector, files, parser, enable, ret>>

\* run_analysis, lines 465-471: the configuration is read and
\* set_analysis_running(True) is queued
WorkerStart(r) ==
    /\ app.threads[r] = "started"
    /\ app' = [after(app, "set_analysis_running_true", r)
                  EXCEPT !.threads[r] = "get_data"]
    /\ op' = "run_analysis"
    /\ UNCHANGED <<detector, files, parser, enable, ret>>

\* lines 474-482: no data, or a new detector
WorkerGetData(r) ==
    /\ app.threads[r] = "get_data"
    /\ \/ app' = [after(app, "showwarning", r) EXCEPT !.threads[r] = "finally"]
       \/ app' = [app EXCEPT !.duplicate_detector = r,
                             !.threads[r] = "analyze"]
    /\ op' = "run_analysis"
    /\ UNCHANGED <<detector, files, parser, enable, ret>>

\* lines 484-515: the analysis reports progress, then stores its results and
\* queues display_results, or raises and queues an error dialog
WorkerAnalyze(r) ==
    /\ app.threads[r] = "analyze"
    /\ \/ app' = [after(after(app, "progress", r), "display_results", r)
                     EXCEPT !.analysis_results = r, !.threads[r] = "finally"]
       \/ app' = [after(after(app, "progress", r), "showerror", r)
                     EXCEPT !.threads[r] = "finally"]
       \/ app' = [after(app, "showerror", r) EXCEPT !.threads[r] = "finally"]
    /\ op' = "run_analysis"
    /\ UNCHANGED <<detector, files, parser, enable, ret>>

\* lines 516-517: set_analysis_running(False) is queued and the thread ends
WorkerFinally(r) ==
    /\ app.threads[r] = "finally"
    /\ app' = [after(app, "set_analysis_running_false", r)
                  EXCEPT !.threads[r] = "ended"]
    /\ op' = "run_analysis"
    /\ UNCHANGED <<detector, files, parser, enable, ret>>

\* the main loop runs the oldest queued callback
MainLoop ==
    /\ app.queue # <<>>
    /\ app' = run_callback([app EXCEPT !.queue = Tail(@)], Head(app.queue))
    /\ op' = "mainloop"
    /\ UNCHANGED <<detector, files, parser, enable, ret>>

Worker(r) ==
    WorkerStart(r) \/ WorkerGetData(r) \/ WorkerAnalyze(r) \/ WorkerFinally(r)

GuiNext ==
    \/ LoadFile
    \/ RunAnalysisThreaded
    \/ \E r \in 1 .. MaxRuns : r \in DOMAIN app.threads /\ Worker(r)
    \/ MainLoop

GuiSpec == GuiInit /\ [][GuiNext]_vars

\* the analysis threads that have not ended
running_threads == {r \in DOMAIN app.threads : app.threads[r] # "ended"}

\* C28: while an analysis thread runs the Run Analysis button is disabled,
\* and at most one analysis thread exists at a time.
C28_OneAnalysisThread ==
    /\ running_threads # {} => app.analyze_button.state = "disabled"
    /\ Cardinality(running_threads) <= 1


\* the positions in the log of callbacks run at which run r's callback fn is
ran_at(a, fn, r) ==
    {k \in DOMAIN a.ran : a.ran[k] = [fn |-> fn, run |-> r]}

\* the callbacks the main loop runs in this step
just_ran == {k \in DOMAIN app'.ran : k \notin DOMAIN app.ran}

\* C29: a run's set_analysis_running(False) is run after its
\* set_analysis_running(True) and after its display_results or dialog, and
\* when it is run, so that the UI shows 'not running', no analysis thread is
\* still running.
C29_NotRunningOnlyWhenNoThread ==
    [][\A k \in just_ran :
          app'.ran[k].fn = "set_analysis_running_false"
              => /\ \E t \in ran_at(app', "set_analysis_running_true",
                                    app'.ran[k].run) : t < k
                 /\ \A j \in DOMAIN app'.ran :
                       (app'.ran[j].run = app'.ran[k].run /\ j # k) => j < k
                 /\ running_threads = {}]_vars

=============================================================================
